---- MODULE Spec2Model ----
(***************************************************************************)
(* A model of the task-manager backend (app.py, database.py, cache.py):    *)
(* the auth_tokens table and its lifecycle (login, logout, refresh), the   *)
(* role and ownership checks of the task, comment and admin handlers, and  *)
(* the read-through cache of task lists and task details.                  *)
(*                                                                         *)
(* Time is in seconds.  Tokens are natural numbers handed out by a counter *)
(* (secrets.token_urlsafe(32) never repeats a value): Tok(1), Tok(2), ...; *)
(* Tok(0) is a token string that was never issued.  Python's None is the   *)
(* record None.                                                            *)
(***************************************************************************)
EXTENDS Integers, Sequences, FiniteSets, TLC

None == [none |-> TRUE]

\* the n-th value secrets.token_urlsafe(32) returns
Tok(n) == [tok |-> n]

(* ------------------------------ constants ------------------------------ *)

TOKEN_TTL_MINUTES == 120

\* refresh_token(old_token, expires_in=3600): the default the route relies on
REFRESH_EXPIRES_IN == 3600

TASK_CACHE_TTL == 300

SECONDS_PER_MINUTE == 60

Roles == {"user", "admin", "super_admin"}

\* 'к выполнению', 'в процессе', 'выполнена', 'отменена'
ALLOWED_STATUSES == {"todo", "in_progress", "done", "cancelled"}

\* 'низкий', 'средний', 'высокий'
ALLOWED_PRIORITIES == {"low", "medium", "high"}

(* -------------------------------- bounds ------------------------------- *)

\* tokens ever minted in one behaviour
MaxTokens == 3

\* task rows ever inserted (the three seeded ones included)
MaxTasks == 4

\* comment rows ever inserted (the three seeded ones included)
MaxComments == 4

\* concurrent requests in the specifications that interleave handlers
MaxProcs == 2

\* user rows ever inserted (the four seeded ones included)
MaxUsers == 6

\* the clock of the cache specification stops here
MaxNow == 700

(* ------------------------------- state --------------------------------- *)

VARIABLES
    users,              \* table users: id -> [email, username, password_hash, role]
    nextUserId,         \* AUTOINCREMENT of users
    auth_tokens,        \* table auth_tokens: token -> [user_id, expires_at]
    nextToken,          \* the next value secrets.token_urlsafe returns
    tasks,              \* table tasks: id -> row
    nextTaskId,         \* AUTOINCREMENT of tasks
    comments,           \* table comments: id -> [task_id, author_id, text]
    nextCommentId,      \* AUTOINCREMENT of comments
    TASK_LIST_CACHE,    \* cache.py: [key, data, expires_at]
    TASK_DETAIL_CACHE,  \* cache.py: task_id -> [data, expires_at]
    now,                \* the wall clock, in seconds
    last,               \* the last request served and its response (or the tick after it)
    pc,                 \* per in-flight request: where its handler stands
    loc,                \* per in-flight request: the handler's local variables
    minted,             \* history: {[old, new, user]} for every successful refresh
    registered          \* history: the bodies of the registrations answered 201

dbVars    == <<users, nextUserId, tasks, nextTaskId, comments, nextCommentId>>
tokenVars == <<auth_tokens, nextToken>>
cacheVars == <<TASK_LIST_CACHE, TASK_DETAIL_CACHE>>
procVars  == <<pc, loc>>
histVars  == <<minted, registered>>

vars == <<users, nextUserId, auth_tokens, nextToken, tasks, nextTaskId,
          comments, nextCommentId, TASK_LIST_CACHE, TASK_DETAIL_CACHE,
          now, last, pc, loc, minted, registered>>

(* ------------------------------ helpers -------------------------------- *)

\* d with key k removed (DELETE ... WHERE key = k; dict.pop(k, None))
Drop(d, k) == [x \in DOMAIN d \ {k} |-> d[x]]

\* d with d[k] = v (INSERT, or dict assignment)
Put(d, k, v) == [x \in DOMAIN d \cup {k} |-> IF x = k THEN v ELSE d[x]]

EmptyTable == [x \in {} |-> None]

\* JSON null and SQL NULL in a text field; an absent id is 0 (ids start at 1)
Null == "null"

\* dict.get(k, default)
Get(d, k, default) == IF k \in DOMAIN d THEN d[k] ELSE default

\* str.strip() on the strings of the model: "   " and " new@mail.ru " are the
\* ones with white space
Strip(s) == IF s = "   " THEN "" ELSE IF s = " new@mail.ru " THEN "new@mail.ru" ELSE s

\* datetime.strptime(s, "%Y-%m-%d") succeeds: the well-formed dates of the model
IsIsoDate(s) == s \in {"2024-12-10", "2024-12-15", "2025-01-31"}

\* generate_password_hash / check_password_hash: an opaque verify(hash, plain)
generate_password_hash(p) == <<"hash", p>>

check_password_hash(h, p) == h = <<"hash", p>>

\* str.lower() on the scheme word of the Authorization header
Lower(s) == IF s \in {"Bearer", "bearer"} THEN "bearer" ELSE s

\* An Authorization header is the list of its whitespace-separated parts:
\* <<>> (header absent), <<"Bearer", t>>, <<"bearer", t>>.
NoHeader == <<>>

Processes == 1..MaxProcs

(* ------------------------- the seeded database ------------------------- *)

\* add_test_data(): four users, password 123456
SeedUsers ==
    (1 :> [email |-> "super@mail.ru", username |-> "super",
           password_hash |-> generate_password_hash("123456"), role |-> "super_admin"]) @@
    (2 :> [email |-> "admin@mail.ru", username |-> "admin",
           password_hash |-> generate_password_hash("123456"), role |-> "admin"]) @@
    (3 :> [email |-> "ivan@mail.ru", username |-> "ivan",
           password_hash |-> generate_password_hash("123456"), role |-> "user"]) @@
    (4 :> [email |-> "anna@mail.ru", username |-> "anna",
           password_hash |-> generate_password_hash("123456"), role |-> "user"])

\* add_test_data(): three tasks (titles and descriptions shortened)
SeedTasks ==
    (1 :> [title |-> "Server", description |-> "setup", status |-> "in_progress",
           priority |-> "high", due_date |-> "2024-12-10", author_id |-> 2,
           executor_id |-> 3, created_at |-> 0, updated_at |-> 0]) @@
    (2 :> [title |-> "Create API", description |-> "rest", status |-> "todo",
           priority |-> "medium", due_date |-> "2024-12-15", author_id |-> 1,
           executor_id |-> 4, created_at |-> 0, updated_at |-> 0]) @@
    (3 :> [title |-> "Testing", description |-> "test", status |-> "todo",
           priority |-> "low", due_date |-> Null, author_id |-> 2,
           executor_id |-> 3, created_at |-> 0, updated_at |-> 0])

\* add_test_data(): three comments (texts shortened)
SeedComments ==
    (1 :> [task_id |-> 1, author_id |-> 1, text |-> "by friday"]) @@
    (2 :> [task_id |-> 1, author_id |-> 3, text |-> "which ubuntu"]) @@
    (3 :> [task_id |-> 2, author_id |-> 1, text |-> "restful"])

(* --------------------------- database.py: tokens ----------------------- *)

\* SELECT ... FROM users WHERE id = ?
get_user_by_id(user_id) ==
    IF user_id \in DOMAIN users
    THEN [id |-> user_id, email |-> users[user_id].email,
          username |-> users[user_id].username, role |-> users[user_id].role]
    ELSE None

\* SELECT * FROM users WHERE email = ?  (email is UNIQUE)
get_user_by_email(email) ==
    IF \E u \in DOMAIN users : users[u].email = email
    THEN LET u == CHOOSE u \in DOMAIN users : users[u].email = email
         IN  [id |-> u, email |-> email, username |-> users[u].username,
              role |-> users[u].role, password_hash |-> users[u].password_hash]
    ELSE None

\* mutant of get_user_by_token: the role is the one the user held when the
\* seeded sessions were issued, not the one in the users table
get_user_by_token_role_at_issue(token) ==
    IF /\ token \in DOMAIN auth_tokens
       /\ auth_tokens[token].expires_at > now
       /\ auth_tokens[token].user_id \in DOMAIN users
    THEN [get_user_by_id(auth_tokens[token].user_id) EXCEPT
             !.role = IF auth_tokens[token].user_id \in DOMAIN SeedUsers
                      THEN SeedUsers[auth_tokens[token].user_id].role ELSE @]
    ELSE None

\* auth_tokens JOIN users WHERE token = ? AND expires_at > CURRENT_TIMESTAMP
get_user_by_token(token) ==
    IF /\ token \in DOMAIN auth_tokens
       /\ auth_tokens[token].expires_at > now
       /\ auth_tokens[token].user_id \in DOMAIN users
    THEN get_user_by_id(auth_tokens[token].user_id)
    ELSE None

\* get_user_by_access_token: the row it returns (valid while not now > expires_at)
get_user_by_access_token(token) ==
    IF /\ token \in DOMAIN auth_tokens
       /\ auth_tokens[token].user_id \in DOMAIN users
       /\ ~(now > auth_tokens[token].expires_at)
    THEN get_user_by_id(auth_tokens[token].user_id)
    ELSE None

\* get_user_by_access_token: the table it leaves (it deletes a row it finds expired)
access_token_sweep(token) ==
    IF /\ token \in DOMAIN auth_tokens
       /\ auth_tokens[token].user_id \in DOMAIN users
       /\ now > auth_tokens[token].expires_at
    THEN Drop(auth_tokens, token)
    ELSE auth_tokens

\* create_auth_token: the row inserted for user_id
create_auth_token_row(user_id) ==
    [user_id |-> user_id, expires_at |-> now + TOKEN_TTL_MINUTES * SECONDS_PER_MINUTE]

\* mutant of delete_access_token: the row is kept
delete_access_token_keeps_row(token) == auth_tokens

\* delete_access_token: DELETE FROM auth_tokens WHERE token = ?
delete_access_token(token) == Drop(auth_tokens, token)

\* delete_access_token: what it returns, cursor.rowcount > 0
delete_access_token_result(token) == token \in DOMAIN auth_tokens

\* mutant of refresh_select: the SELECT without its test of expires_at
refresh_select_any_expiry(old_token) ==
    IF old_token \in DOMAIN auth_tokens
    THEN [user_id |-> auth_tokens[old_token].user_id]
    ELSE None
\* refresh_token: SELECT user_id ... WHERE token = ? AND expires_at > CURRENT_TIMESTAMP
refresh_select(old_token) ==
    IF old_token \in DOMAIN auth_tokens /\ auth_tokens[old_token].expires_at > now
    THEN [user_id |-> auth_tokens[old_token].user_id]
    ELSE None

\* mutant of refresh_commit: the DELETE of the old row is forgotten
refresh_commit_keeps_old(old_token, new_token, row) ==
    Put(auth_tokens, new_token,
        [user_id |-> row.user_id, expires_at |-> now + REFRESH_EXPIRES_IN])

\* mutant of refresh_commit: every row of the user is deleted, not the old one alone
refresh_commit_all_sessions(old_token, new_token, row) ==
    Put([t \in {x \in DOMAIN auth_tokens : auth_tokens[x].user_id # row.user_id}
            |-> auth_tokens[t]],
        new_token,
        [user_id |-> row.user_id, expires_at |-> now + REFRESH_EXPIRES_IN])
\* refresh_token: DELETE the old row, INSERT the new one, commit
refresh_commit(old_token, new_token, row) ==
    Put(Drop(auth_tokens, old_token), new_token,
        [user_id |-> row.user_id, expires_at |-> now + REFRESH_EXPIRES_IN])

(* ---------------------- database.py: tasks and comments ---------------- *)

\* users.username through a LEFT JOIN: NULL when the user row is gone
username_of(user_id) ==
    IF user_id \in DOMAIN users THEN users[user_id].username ELSE Null

\* the row of task_id in table t, with author_name and executor_name joined in
task_view(t, task_id) ==
    [id |-> task_id, title |-> t[task_id].title,
     description |-> t[task_id].description, status |-> t[task_id].status,
     priority |-> t[task_id].priority, due_date |-> t[task_id].due_date,
     author_id |-> t[task_id].author_id, executor_id |-> t[task_id].executor_id,
     created_at |-> t[task_id].created_at, updated_at |-> t[task_id].updated_at,
     author_name |-> username_of(t[task_id].author_id),
     executor_name |-> username_of(t[task_id].executor_id)]

\* get_task_by_id
get_task_by_id(task_id) ==
    IF task_id \in DOMAIN tasks THEN task_view(tasks, task_id) ELSE None

\* the ids in S by created_at DESC (equal times: the higher rowid first)
RECURSIVE newest_first(_, _)
newest_first(t, S) ==
    IF S = {} THEN <<>>
    ELSE LET m == CHOOSE x \in S : \A y \in S :
                      \/ t[x].created_at > t[y].created_at
                      \/ t[x].created_at = t[y].created_at /\ x >= y
         IN  <<m>> \o newest_first(t, S \ {m})

\* filters is a dict of the query parameters that were given
matches(row, filters) ==
    /\ "status" \in DOMAIN filters => row.status = filters["status"]
    /\ "priority" \in DOMAIN filters => row.priority = filters["priority"]
    /\ "author_id" \in DOMAIN filters => row.author_id = filters["author_id"]
    /\ "executor_id" \in DOMAIN filters => row.executor_id = filters["executor_id"]

\* get_all_tasks(filters, limit, offset)
get_all_tasks(filters, limit, offset) ==
    LET ids  == newest_first(tasks, {i \in DOMAIN tasks : matches(tasks[i], filters)})
        page == SubSeq(ids, offset + 1,
                       IF offset + limit < Len(ids) THEN offset + limit ELSE Len(ids))
    IN  [i \in 1..Len(page) |-> task_view(tasks, page[i])]

\* database.create_task: the row inserted
create_task_row(title, description, author_id, executor_id, status, priority, due_date) ==
    [title |-> title, description |-> description, status |-> status,
     priority |-> priority, due_date |-> due_date, author_id |-> author_id,
     executor_id |-> executor_id, created_at |-> now, updated_at |-> now]

ALLOWED_FIELDS == {"title", "description", "status", "priority", "due_date", "executor_id"}

\* database.update_task: the fields its UPDATE sets (allow-listed and not None)
update_task_sets(kwargs) ==
    {f \in DOMAIN kwargs \cap ALLOWED_FIELDS :
        IF f = "executor_id" THEN kwargs[f] # 0 ELSE kwargs[f] # Null}

\* mutant of update_task_ok: an UPDATE of updated_at alone is run and succeeds
update_task_ok_touch(task_id, kwargs) == task_id \in DOMAIN tasks

\* database.update_task: whether it reports success
update_task_ok(task_id, kwargs) ==
    /\ DOMAIN kwargs # {}
    /\ update_task_sets(kwargs) # {}
    /\ task_id \in DOMAIN tasks

\* mutant of update_task_rows: the UPDATE writes created_at as well
update_task_rows_recreated(task_id, kwargs) ==
    IF ~update_task_ok(task_id, kwargs) THEN tasks
    ELSE [tasks EXCEPT ![task_id] =
            [f \in DOMAIN tasks[task_id] |->
                IF f \in update_task_sets(kwargs) THEN kwargs[f]
                ELSE IF f \in {"updated_at", "created_at"} THEN now
                ELSE tasks[task_id][f]]]

\* database.update_task: the table after its UPDATE
update_task_rows(task_id, kwargs) ==
    IF ~update_task_ok(task_id, kwargs) THEN tasks
    ELSE [tasks EXCEPT ![task_id] =
            [f \in DOMAIN tasks[task_id] |->
                IF f \in update_task_sets(kwargs) THEN kwargs[f]
                ELSE IF f = "updated_at" THEN now
                ELSE tasks[task_id][f]]]

\* DELETE FROM tasks WHERE id = ?  (no PRAGMA foreign_keys: nothing cascades)
delete_task_rows(task_id) == Drop(tasks, task_id)

\* get_comment_by_id: comments JOIN users on the author
get_comment_by_id(comment_id) ==
    IF comment_id \in DOMAIN comments /\ comments[comment_id].author_id \in DOMAIN users
    THEN [id |-> comment_id, task_id |-> comments[comment_id].task_id,
          author_id |-> comments[comment_id].author_id,
          text |-> comments[comment_id].text,
          author_name |-> users[comments[comment_id].author_id].username]
    ELSE None

\* database.update_comment: the table after its UPDATE
update_comment_rows(comment_id, text) ==
    IF text = "" \/ comment_id \notin DOMAIN comments THEN comments
    ELSE [comments EXCEPT ![comment_id].text = text]

(* --------------------------- utils/validators.py ----------------------- *)

\* validate_task_data: the set of rules the data violates
validate_task_data(data, require_all) ==
    LET title     == Get(data, "title", Null)
        author_id == Get(data, "author_id", 0)
        status    == Get(data, "status", Null)
        priority  == Get(data, "priority", Null)
        due_date  == Get(data, "due_date", Null)
        truthy(x) == x # Null /\ x # ""
    IN  (IF require_all /\ (~truthy(title) \/ Strip(title) = "")
         THEN {"title_required"} ELSE {})
        \cup (IF truthy(title) /\ Len(Strip(title)) < 3 THEN {"title_short"} ELSE {})
        \cup (IF truthy(title) /\ Len(Strip(title)) > 255 THEN {"title_long"} ELSE {})
        \cup (IF require_all /\ author_id = 0 THEN {"author_required"} ELSE {})
        \cup (IF status # Null /\ status \notin ALLOWED_STATUSES THEN {"status"} ELSE {})
        \cup (IF priority # Null /\ priority \notin ALLOWED_PRIORITIES
              THEN {"priority"} ELSE {})
        \cup (IF truthy(due_date) /\ ~IsIsoDate(due_date) THEN {"due_date"} ELSE {})

\* a JSON array as a value of the body: Python parses it to a list, which is
\* not hashable
JsonList == "[list]"

\* validate_task_data raises TypeError: `status not in ALLOWED_STATUSES` and
\* `priority not in ALLOWED_PRIORITIES` test membership in a set, which hashes
\* the value
validate_task_data_raises(data) ==
    \/ Get(data, "status", Null) = JsonList
    \/ Get(data, "priority", Null) = JsonList

(* -------------------------------- cache.py ----------------------------- *)

\* make_task_list_cache_key: sorted(filters.items()) makes the key a function of
\* the filter set alone, so the dict itself stands for its sorted item list
make_task_list_cache_key(filters, page, limit) ==
    [items |-> filters, page |-> page, limit |-> limit]

EmptyListCache == [key |-> None, data |-> None, expires_at |-> 0]

\* get_cached_task_list: what it returns
get_cached_task_list(key) ==
    IF TASK_LIST_CACHE.key # key THEN None
    ELSE IF TASK_LIST_CACHE.expires_at < now THEN None
    ELSE TASK_LIST_CACHE.data

\* get_cached_task_list: the slot it leaves (an expired entry is cleared)
get_cached_task_list_slot(key) ==
    IF TASK_LIST_CACHE.key = key /\ TASK_LIST_CACHE.expires_at < now
    THEN EmptyListCache
    ELSE TASK_LIST_CACHE

\* set_cached_task_list
set_cached_task_list(key, data) ==
    [key |-> key, data |-> data, expires_at |-> now + TASK_CACHE_TTL]

\* invalidate_task_list_cache
invalidate_task_list_cache == EmptyListCache

\* get_cached_task_detail: what it returns
get_cached_task_detail(task_id) ==
    IF task_id \notin DOMAIN TASK_DETAIL_CACHE THEN None
    ELSE IF TASK_DETAIL_CACHE[task_id].expires_at < now THEN None
    ELSE TASK_DETAIL_CACHE[task_id].data

\* get_cached_task_detail: the dict it leaves (an expired entry is popped)
get_cached_task_detail_dict(task_id) ==
    IF task_id \in DOMAIN TASK_DETAIL_CACHE /\ TASK_DETAIL_CACHE[task_id].expires_at < now
    THEN Drop(TASK_DETAIL_CACHE, task_id)
    ELSE TASK_DETAIL_CACHE

\* set_cached_task_detail
set_cached_task_detail(task_id, data) ==
    Put(TASK_DETAIL_CACHE, task_id, [data |-> data, expires_at |-> now + TASK_CACHE_TTL])

\* mutant of invalidate_task_detail: the entry is kept
invalidate_task_detail_keeps(task_id) == TASK_DETAIL_CACHE
\* invalidate_task_detail
invalidate_task_detail(task_id) == Drop(TASK_DETAIL_CACHE, task_id)

(* ----------------------------- app.py: auth ---------------------------- *)

\* token_required: the request context g it builds, or the 401 it answers
token_required(h) ==
    IF Len(h) # 2 \/ Lower(h[1]) # "bearer"
    THEN [code |-> 401, current_user |-> None, current_token |-> None]
    ELSE IF get_user_by_token(h[2]) = None
         THEN [code |-> 401, current_user |-> None, current_token |-> None]
         ELSE [code |-> 200, current_user |-> get_user_by_token(h[2]),
               current_token |-> None]

\* resolve_current_user: the user it returns and whether it returns an error;
\* the header must start with "Bearer " exactly, or the caller is a guest
resolve_current_user(h) ==
    IF Len(h) # 2 \/ h[1] # "Bearer"
    THEN [user |-> None, failed |-> FALSE, current_token |-> None]
    ELSE IF get_user_by_access_token(h[2]) = None
         THEN [user |-> None, failed |-> TRUE, current_token |-> None]
         ELSE [user |-> get_user_by_access_token(h[2]), failed |-> FALSE,
               current_token |-> h[2]]

\* resolve_current_user: the auth_tokens table it leaves
resolve_sweep(h) ==
    IF Len(h) # 2 \/ h[1] # "Bearer" THEN auth_tokens ELSE access_token_sweep(h[2])

(* ----------------------------- app.py: tasks --------------------------- *)

EmptyBody == <<>>

\* the allow-list filter of update_task
filtered_data(body) == [k \in DOMAIN body \cap ALLOWED_FIELDS |-> body[k]]

\* mutant of task_owner_denied: the ownership test of the admin is left out
task_owner_denied_roleonly(role, user_id, task) == role = "user"

\* update_task / delete_task: the role and ownership test (TRUE: 403)
task_owner_denied(role, user_id, task) ==
    \/ role = "user"
    \/ role = "admin" /\ task.author_id # user_id

\* update_task, the body of the handler up to the call of database.update_task:
\* the status it answers, 0 when it goes on to the write
update_task_handler_check(h, task_id, body) ==
    LET r    == resolve_current_user(h)
        task == get_task_by_id(task_id)
    IN  IF r.failed \/ r.user = None THEN 500
        ELSE IF body = EmptyBody THEN 400
        ELSE IF task = None THEN 404
        ELSE IF task_owner_denied(r.user.role, r.user.id, task) THEN 403
        ELSE IF filtered_data(body) = EmptyBody THEN 400
        ELSE IF validate_task_data_raises(filtered_data(body)) THEN 500
        ELSE IF validate_task_data(filtered_data(body), FALSE) # {} THEN 400
        ELSE 0

\* update_task, from its decorator to the call of database.update_task: the
\* status it answers, 0 when it goes on to the write
update_task_check(h, task_id, body) ==
    IF token_required(h).code # 200 THEN 401
    ELSE update_task_handler_check(h, task_id, body)

\* delete_task, from its decorator to its DELETE
delete_task_check(h, task_id) ==
    LET g    == token_required(h)
        r    == resolve_current_user(h)
        task == get_task_by_id(task_id)
    IN  IF g.code # 200 THEN 401
        ELSE IF r.failed \/ r.user = None THEN 500
        ELSE IF task = None THEN 404
        ELSE IF task_owner_denied(r.user.role, r.user.id, task) THEN 403
        ELSE 0

\* mutant of create_task_role_denied: nobody is refused
create_task_role_denied_never(role) == FALSE

\* create_task: the role test (TRUE: 403)
create_task_role_denied(role) == role \notin {"admin", "super_admin"}

\* create_task, from its decorator to the call of database.create_task (an
\* exception in the try block is answered 500)
create_task_check(h, body) ==
    LET g == token_required(h)
    IN  IF g.code # 200 THEN 401
        ELSE IF create_task_role_denied(g.current_user.role) THEN 403
        ELSE IF body = None THEN 400
        ELSE IF validate_task_data_raises(body) THEN 500
        ELSE IF validate_task_data(body, TRUE) # {} THEN 400
        ELSE 0

\* create_task: the row it hands to database.create_task
create_task_values(body) ==
    LET author_id == body["author_id"]
        or(x, d)  == IF x = Null \/ x = "" THEN d ELSE x
    IN  create_task_row(Strip(Get(body, "title", "")),
                        Strip(or(Get(body, "description", Null), "")),
                        author_id,
                        IF Get(body, "executor_id", 0) = 0 THEN author_id
                        ELSE body["executor_id"],
                        or(Get(body, "status", Null), "todo"),
                        or(Get(body, "priority", Null), "medium"),
                        Get(body, "due_date", Null))

\* the side effects a handler performed, in order
Steps(emit_ok, before, after) ==
    before \o (IF emit_ok THEN <<"broadcast">> \o after ELSE <<"broadcast_failed">>)

\* POST /api/tasks.  The event is published before the cache is invalidated; a
\* failing publish lands in `except Exception`: 500, the row stays.
CreateTask(h, body, emit_ok) ==
    LET c == create_task_check(h, body)
    IN  /\ IF c # 0
           THEN /\ last' = [op |-> "create_task", hdr |-> h, id |-> 0, body |-> body,
                            code |-> c, steps |-> <<>>]
                /\ UNCHANGED <<tasks, nextTaskId, cacheVars>>
           ELSE /\ nextTaskId <= MaxTasks
                /\ tasks' = Put(tasks, nextTaskId, create_task_values(body))
                /\ nextTaskId' = nextTaskId + 1
                /\ TASK_LIST_CACHE' =
                      IF emit_ok THEN invalidate_task_list_cache ELSE TASK_LIST_CACHE
                /\ TASK_DETAIL_CACHE' =
                      IF emit_ok THEN invalidate_task_detail(nextTaskId)
                      ELSE TASK_DETAIL_CACHE
                /\ last' = [op |-> "create_task", hdr |-> h, id |-> nextTaskId,
                            body |-> body,
                            code |-> IF emit_ok THEN 201 ELSE 500,
                            steps |-> Steps(emit_ok, <<"persist">>,
                                            <<"invalidate_list", "invalidate_detail">>)]
        /\ UNCHANGED <<users, nextUserId, comments, nextCommentId, tokenVars, now,
                       procVars, histVars>>

\* PUT /api/tasks/<id>.  A failing publish is not caught: 500 after the write.
UpdateTask(h, task_id, body, emit_ok) ==
    LET c == update_task_check(h, task_id, body)
    IN  /\ IF c # 0
           THEN /\ last' = [op |-> "update_task", hdr |-> h, id |-> task_id,
                            body |-> body, code |-> c,
                            steps |-> <<>>]
                /\ UNCHANGED <<tasks, cacheVars>>
           ELSE IF ~update_task_ok(task_id, filtered_data(body))
           THEN /\ last' = [op |-> "update_task", hdr |-> h, id |-> task_id,
                            body |-> body, code |-> 400,
                            steps |-> <<>>]
                /\ UNCHANGED <<tasks, cacheVars>>
           ELSE /\ tasks' = update_task_rows(task_id, filtered_data(body))
                /\ TASK_LIST_CACHE' = invalidate_task_list_cache
                /\ TASK_DETAIL_CACHE' = invalidate_task_detail(task_id)
                /\ last' = [op |-> "update_task", hdr |-> h, id |-> task_id,
                            body |-> body,
                            code |-> IF emit_ok THEN 200 ELSE 500,
                            steps |-> Steps(emit_ok, <<"persist", "invalidate_list",
                                                       "invalidate_detail">>, <<>>)]
        /\ auth_tokens' = IF token_required(h).code = 200 THEN resolve_sweep(h)
                          ELSE auth_tokens
        /\ UNCHANGED <<users, nextUserId, nextTaskId, comments, nextCommentId,
                       nextToken, now, procVars, histVars>>

\* DELETE /api/tasks/<id>.  A failing publish lands in `except Exception`: 500.
DeleteTask(h, task_id, emit_ok) ==
    LET c == delete_task_check(h, task_id)
    IN  /\ IF c # 0
           THEN /\ last' = [op |-> "delete_task", hdr |-> h, id |-> task_id,
                            body |-> EmptyBody, code |-> c,
                            steps |-> <<>>]
                /\ UNCHANGED <<tasks, cacheVars>>
           ELSE /\ tasks' = delete_task_rows(task_id)
                /\ TASK_LIST_CACHE' = invalidate_task_list_cache
                /\ TASK_DETAIL_CACHE' = invalidate_task_detail(task_id)
                /\ last' = [op |-> "delete_task", hdr |-> h, id |-> task_id,
                            body |-> EmptyBody,
                            code |-> IF emit_ok THEN 200 ELSE 500,
                            steps |-> Steps(emit_ok, <<"persist", "invalidate_list",
                                                       "invalidate_detail">>, <<>>)]
        /\ auth_tokens' = IF token_required(h).code = 200 THEN resolve_sweep(h)
                          ELSE auth_tokens
        /\ UNCHANGED <<users, nextUserId, nextTaskId, comments, nextCommentId,
                       nextToken, now, procVars, histVars>>

(* ---------------------------- app.py: comments ------------------------- *)

\* str(x) on a JSON text value: str(None) is "None"
Str(x) == IF x = Null THEN "None" ELSE x

\* POST /api/tasks/<id>/comments: no decorator, the header is never read.
\* The status it answers before the INSERT, 0 when it goes on to it.
add_comment_check(task_id, body) ==
    IF body = None THEN 400
    ELSE IF "text" \notin DOMAIN body THEN 400
    ELSE IF "author_id" \notin DOMAIN body THEN 400
    ELSE IF Strip(Str(body["text"])) = "" THEN 400
    ELSE IF get_task_by_id(task_id) = None THEN 404
    ELSE IF body["author_id"] = 0 THEN 500    \* NOT NULL constraint, except Exception
    ELSE 0

AddComment(h, task_id, body, emit_ok) ==
    LET c == add_comment_check(task_id, body)
    IN  /\ IF c # 0
           THEN /\ last' = [op |-> "add_comment", hdr |-> h, id |-> 0, body |-> body,
                            code |-> c, row |-> None]
                /\ UNCHANGED <<comments, nextCommentId>>
           ELSE /\ nextCommentId <= MaxComments
                /\ comments' = Put(comments, nextCommentId,
                                   [task_id |-> task_id, author_id |-> body["author_id"],
                                    text |-> Strip(Str(body["text"]))])
                /\ nextCommentId' = nextCommentId + 1
                /\ last' = [op |-> "add_comment", hdr |-> h, id |-> nextCommentId,
                            body |-> body,
                            code |-> IF emit_ok THEN 201 ELSE 500, row |-> None]
        /\ UNCHANGED <<users, nextUserId, tasks, nextTaskId, tokenVars, cacheVars, now,
                       procVars, histVars>>

\* DELETE /api/comments/<id>: no decorator, the header is never read
DeleteComment(h, comment_id, emit_ok) ==
    /\ IF comment_id \notin DOMAIN comments
       THEN /\ last' = [op |-> "delete_comment", hdr |-> h, id |-> comment_id,
                        body |-> EmptyBody, code |-> 404,
                        row |-> None]
            /\ UNCHANGED comments
       ELSE /\ comments' = Drop(comments, comment_id)
            /\ last' = [op |-> "delete_comment", hdr |-> h, id |-> comment_id,
                        body |-> EmptyBody,
                        code |-> IF emit_ok THEN 200 ELSE 500,
                        row |-> comments[comment_id]]
    /\ UNCHANGED <<users, nextUserId, tasks, nextTaskId, nextCommentId, tokenVars,
                   cacheVars, now, procVars, histVars>>

\* mutant of comment_edit_denied: nobody is refused
comment_edit_denied_nobody(user, comment) == FALSE

\* update_comment_route: the author or an admin / super_admin may edit (TRUE: 403)
comment_edit_denied(user, comment) ==
    /\ user.role \notin {"admin", "super_admin"}
    /\ comment.author_id # user.id

\* update_comment_route, from its decorator to the call of database.update_comment
update_comment_check(h, comment_id, body) ==
    LET g       == token_required(h)
        text    == Get(body, "text", Null)
        comment == get_comment_by_id(comment_id)
    IN  IF g.code # 200 THEN 401
        ELSE IF Strip(IF text = Null THEN "" ELSE text) = "" THEN 400
        ELSE IF comment = None THEN 404
        ELSE IF comment_edit_denied(g.current_user, comment) THEN 403
        ELSE 0

\* PUT /api/comments/<id>.  A failing publish is not caught: 500 after the write.
UpdateComment(h, comment_id, body, emit_ok) ==
    LET c == update_comment_check(h, comment_id, body)
    IN  /\ IF c # 0
           THEN /\ last' = [op |-> "update_comment", hdr |-> h, id |-> comment_id,
                            body |-> body, code |-> c,
                            row |-> None]
                /\ UNCHANGED comments
           ELSE /\ comments' = update_comment_rows(comment_id, Strip(body["text"]))
                /\ last' = [op |-> "update_comment", hdr |-> h, id |-> comment_id,
                            body |-> body,
                            code |-> IF emit_ok THEN 200 ELSE 500,
                            row |-> comments[comment_id]]
    /\ UNCHANGED <<users, nextUserId, tasks, nextTaskId, nextCommentId, tokenVars,
                   cacheVars, now, procVars, histVars>>

(* ------------------------------ app.py: admin -------------------------- *)

\* mutant of admin_role_denied: the test of admin_required, which lets an admin in
admin_role_denied_admin_ok(role) == role \notin {"admin", "super_admin"}

\* super_admin_required: the role test (TRUE: 403)
admin_role_denied(role) == role # "super_admin"

\* super_admin_required: the status it answers, 0 when the handler runs.
\* An error from resolve_current_user is a (Response, 401) pair whose Response
\* the decorator hands to jsonify, and a guest is None["role"]: both raise, 500.
super_admin_required(h) ==
    LET r == resolve_current_user(h)
    IN  IF r.failed THEN 500
        ELSE IF r.user = None THEN 500
        ELSE IF admin_role_denied(r.user.role) THEN 403
        ELSE 0

\* admin_change_user_role behind super_admin_required: the status it answers
change_role_check(h, user_id, body) ==
    LET c        == super_admin_required(h)
        new_role == Get(body, "role", Null)
    IN  IF c # 0 THEN c
        ELSE IF new_role \notin Roles THEN 400
        ELSE IF get_user_by_id(user_id) = None THEN 404
        ELSE IF resolve_current_user(h).user.id = user_id /\ new_role # "super_admin"
             THEN 400
        ELSE 200

\* PUT /admin/users/<id>/role
ChangeRole(h, user_id, body) ==
    LET c == change_role_check(h, user_id, body)
    IN  /\ users' = IF c = 200 THEN [users EXCEPT ![user_id].role = body["role"]]
                    ELSE users
        /\ auth_tokens' = resolve_sweep(h)
        /\ last' = [op |-> "change_role", hdr |-> h, id |-> user_id, body |-> body,
                    code |-> c]
        /\ UNCHANGED <<nextUserId, tasks, nextTaskId, comments, nextCommentId,
                       nextToken, cacheVars, now, procVars, histVars>>

\* admin_delete_user behind super_admin_required: the status it answers
delete_user_check(h, user_id) ==
    LET c == super_admin_required(h)
    IN  IF c # 0 THEN c
        ELSE IF resolve_current_user(h).user.id = user_id THEN 400
        ELSE IF get_user_by_id(user_id) = None THEN 404
        ELSE 200

\* mutant of delete_user_rows: the DELETE runs whatever was answered
delete_user_rows_unguarded(c, user_id) == Drop(users, user_id)

\* admin_delete_user: the users table it leaves when it answers c; only the
\* path that ends in 200 reaches database.delete_user
delete_user_rows(c, user_id) == IF c = 200 THEN Drop(users, user_id) ELSE users

\* DELETE /admin/users/<id>  (no PRAGMA foreign_keys: the DELETE never fails and
\* cascades to nothing)
DeleteUser(h, user_id) ==
    LET c == delete_user_check(h, user_id)
    IN  /\ users' = delete_user_rows(c, user_id)
        /\ auth_tokens' = resolve_sweep(h)
        /\ last' = [op |-> "delete_user", hdr |-> h, id |-> user_id,
                    body |-> EmptyBody, code |-> c]
        /\ UNCHANGED <<nextUserId, tasks, nextTaskId, comments, nextCommentId,
                       nextToken, cacheVars, now, procVars, histVars>>

\* /users/me GET behind token_required
GetMe(h) ==
    LET g == token_required(h)
    IN  /\ last' = [op |-> "get_me", hdr |-> h, code |-> g.code, user |-> g.current_user]
        /\ UNCHANGED <<dbVars, tokenVars, cacheVars, now, procVars, histVars>>

\* /auth/login
Login(email, password) ==
    LET e    == Strip(email)
        user == get_user_by_email(e)
        resp(code, token) == [op |-> "login", email |-> email, password |-> password,
                              code |-> code, token |-> token]
    IN  /\ IF e = "" \/ password = ""
           THEN /\ last' = resp(400, None)
                /\ UNCHANGED tokenVars
           ELSE IF user = None
           THEN /\ last' = resp(401, None)
                /\ UNCHANGED tokenVars
           ELSE IF ~check_password_hash(user.password_hash, password)
           THEN /\ last' = resp(401, None)
                /\ UNCHANGED tokenVars
           ELSE /\ nextToken <= MaxTokens
                /\ auth_tokens' = Put(auth_tokens, Tok(nextToken),
                                      create_auth_token_row(user.id))
                /\ nextToken' = nextToken + 1
                /\ last' = resp(200, Tok(nextToken))
        /\ UNCHANGED <<dbVars, cacheVars, now, procVars, histVars>>

\* /auth/logout behind token_required: it revokes g.current_token, which only
\* resolve_current_user sets
Logout(h) ==
    LET g     == token_required(h)
        token == g.current_token
    IN  /\ IF g.code # 200
           THEN /\ last' = [op |-> "logout", hdr |-> h, code |-> 401]
                /\ UNCHANGED auth_tokens
           ELSE IF token = None
           THEN /\ last' = [op |-> "logout", hdr |-> h, code |-> 200]
                /\ UNCHANGED auth_tokens
           ELSE /\ auth_tokens' = delete_access_token(token)
                /\ last' = [op |-> "logout", hdr |-> h, code |-> 200]
        /\ UNCHANGED <<dbVars, nextToken, cacheVars, now, procVars, histVars>>

\* /auth/refresh with database.refresh_token run without interruption
Refresh(old_token) ==
    LET row == refresh_select(old_token)
    IN  /\ IF old_token = None
           THEN /\ last' = [op |-> "refresh", token |-> old_token, code |-> 400,
                            new_token |-> None]
                /\ UNCHANGED <<tokenVars, minted>>
           ELSE IF row = None
           THEN /\ last' = [op |-> "refresh", token |-> old_token, code |-> 401,
                            new_token |-> None]
                /\ UNCHANGED <<tokenVars, minted>>
           ELSE /\ nextToken <= MaxTokens
                /\ auth_tokens' = refresh_commit(old_token, Tok(nextToken), row)
                /\ nextToken' = nextToken + 1
                /\ minted' = minted \cup {[old |-> old_token, new |-> Tok(nextToken),
                                           user |-> get_user_by_token(old_token)]}
                /\ last' = [op |-> "refresh", token |-> old_token, code |-> 200,
                            new_token |-> Tok(nextToken)]
        /\ UNCHANGED <<dbVars, cacheVars, now, procVars, registered>>

(* ------------------------------- the clock ----------------------------- *)

\* Only the order of now and the stored expiry times decides anything, so the
\* clock jumps to the instants that change it: an expiry time itself and the
\* second after it (every earlier instant compares like the one the entry was
\* stored at).
Expiries ==
    {auth_tokens[t].expires_at : t \in DOMAIN auth_tokens}
        \cup {TASK_DETAIL_CACHE[k].expires_at : k \in DOMAIN TASK_DETAIL_CACHE}
        \cup (IF TASK_LIST_CACHE.key = None THEN {} ELSE {TASK_LIST_CACHE.expires_at})

Instants == UNION {{e, e + 1} : e \in Expiries}

Tick ==
    /\ \E t \in Instants : t > now /\ now' = t
    /\ last' = [op |-> "tick", code |-> 0]
    /\ UNCHANGED <<dbVars, tokenVars, cacheVars, procVars, histVars>>

(* ------------------------------ initial state -------------------------- *)

Init ==
    /\ users = SeedUsers
    /\ nextUserId = 5
    /\ auth_tokens = EmptyTable
    /\ nextToken = 1
    /\ tasks = SeedTasks
    /\ nextTaskId = 4
    /\ comments = SeedComments
    /\ nextCommentId = 4
    /\ TASK_LIST_CACHE = EmptyListCache
    /\ TASK_DETAIL_CACHE = EmptyTable
    /\ now = 0
    /\ last = [op |-> "none", code |-> 0]
    /\ pc = [p \in Processes |-> "idle"]
    /\ loc = [p \in Processes |-> None]
    /\ minted = {}
    /\ registered = {}

(* ------------------- specification: the token lifecycle ---------------- *)

TokenStrings == {Tok(n) : n \in 0..MaxTokens}

Headers == {NoHeader} \cup {<<"Bearer", t>> : t \in TokenStrings} \cup {<<"bearer", Tok(1)>>}

Emails == {"admin@mail.ru", "ivan@mail.ru"}

Passwords == {"123456", "wrong"}

NextToken ==
    \/ \E e \in Emails, p \in Passwords : Login(e, p)
    \/ \E h \in Headers : GetMe(h)
    \/ \E h \in Headers : Logout(h)
    \/ \E t \in TokenStrings \cup {None} : Refresh(t)
    \/ Tick

SpecToken == Init /\ [][NextToken]_vars

(* C1: after a successful refresh of a valid token t that returns t2, every
   later resolve of t fails (under both resolvers), the refresh response's t2
   resolves to the user t resolved to just before the refresh, and t2 never
   resolves to anybody else. *)
C1_RotationReplacesToken ==
    /\ \A m \in minted :
        /\ m.user # None
        /\ get_user_by_token(m.old) = None
        /\ get_user_by_access_token(m.old) = None
        /\ get_user_by_token(m.new) # None => get_user_by_token(m.new).id = m.user.id
    /\ (last.op = "refresh" /\ last.code = 200) =>
        \E m \in minted :
            /\ m.old = last.token
            /\ m.new = last.new_token
            /\ get_user_by_token(m.new) # None
            /\ get_user_by_token(m.new).id = m.user.id

\* a refresh has just succeeded, after the clock has moved
C1_Witness ==
    /\ last.op = "refresh"
    /\ last.code = 200
    /\ now > 0

(* C2: once a logout request that carried a valid token t has been answered
   200, t no longer resolves: the next request presenting t gets 401. *)
C2_LogoutRevokes ==
    (last.op = "logout" /\ last.code = 200) =>
        /\ get_user_by_token(last.hdr[2]) = None
        /\ get_user_by_access_token(last.hdr[2]) = None

(* ------------- specification: refresh requests that interleave --------- *)

\* database.refresh_token up to its SELECT (sqlite3 opens the transaction only
\* at the first DELETE/INSERT, so the SELECT runs in no transaction)
RefreshSelect(p, old_token) ==
    LET row == refresh_select(old_token)
    IN  /\ pc[p] = "idle"
        /\ IF row = None
           THEN /\ last' = [op |-> "refresh", token |-> old_token, code |-> 401,
                            new_token |-> None]
                /\ UNCHANGED procVars
           ELSE /\ pc' = [pc EXCEPT ![p] = "refresh_write"]
                /\ loc' = [loc EXCEPT ![p] = [old_token |-> old_token, row |-> row]]
                /\ UNCHANGED last
        /\ UNCHANGED <<dbVars, tokenVars, cacheVars, now, histVars>>

\* database.refresh_token from its DELETE to the commit: one transaction
RefreshWrite(p) ==
    /\ pc[p] = "refresh_write"
    /\ nextToken <= MaxTokens
    /\ auth_tokens' = refresh_commit(loc[p].old_token, Tok(nextToken), loc[p].row)
    /\ nextToken' = nextToken + 1
    /\ minted' = minted \cup {[old |-> loc[p].old_token, new |-> Tok(nextToken),
                               user |-> get_user_by_id(loc[p].row.user_id)]}
    /\ last' = [op |-> "refresh", token |-> loc[p].old_token, code |-> 200,
                new_token |-> Tok(nextToken)]
    /\ pc' = [pc EXCEPT ![p] = "idle"]
    /\ loc' = [loc EXCEPT ![p] = None]
    /\ UNCHANGED <<dbVars, cacheVars, now, registered>>

NextRefresh ==
    \/ \E e \in Emails, pw \in Passwords : Login(e, pw)
    \/ \E h \in Headers : GetMe(h)
    \/ \E p \in Processes, t \in TokenStrings : RefreshSelect(p, t)
    \/ \E p \in Processes : RefreshWrite(p)
    \/ Tick

SpecRefresh == Init /\ [][NextRefresh]_vars

(* C3: of all the refresh requests that present the same token t, in any
   interleaving, at most one succeeds: at most one new token is minted from t. *)
C3_AtMostOneMint ==
    \A m1, m2 \in minted : m1.old = m2.old => m1.new = m2.new

(* ------------- specifications: authorization of the handlers ----------- *)

\* the state after add_test_data and one login of every seeded user at time 0:
\* user u holds the session token Tok(u)
InitLoggedIn ==
    /\ users = SeedUsers
    /\ nextUserId = 5
    /\ auth_tokens = [t \in {Tok(u) : u \in DOMAIN SeedUsers} |->
                        [user_id |-> t.tok,
                         expires_at |-> TOKEN_TTL_MINUTES * SECONDS_PER_MINUTE]]
    /\ nextToken = 5
    /\ tasks = SeedTasks
    /\ nextTaskId = 4
    /\ comments = SeedComments
    /\ nextCommentId = 4
    /\ TASK_LIST_CACHE = EmptyListCache
    /\ TASK_DETAIL_CACHE = EmptyTable
    /\ now = 0
    /\ last = [op |-> "none", code |-> 0]
    /\ pc = [p \in Processes |-> "idle"]
    /\ loc = [p \in Processes |-> None]
    /\ minted = {}
    /\ registered = {}

\* Authorization headers: none, an unknown token, the sessions of the
\* super_admin, the admin and the user ivan, and the admin's session under the
\* lower-case scheme
SessionHeaders ==
    {NoHeader} \cup {<<"Bearer", Tok(n)>> : n \in 0..3} \cup {<<"bearer", Tok(2)>>}

\* socketio.emit returns or raises; it is reached only when the checks passed
Emits(c) == IF c = 0 THEN BOOLEAN ELSE {TRUE}

\* the header of the seeded super_admin
SuperHeader == <<"Bearer", Tok(1)>>

CreateBodies ==
    { None,
      [title |-> "ab", author_id |-> 2],
      [title |-> "New task", author_id |-> 2] }

UpdateBodies ==
    { EmptyBody,
      [status |-> "done"] }

\* the requests address task 1 (of the admin), task 2 (of the super_admin),
\* the created tasks and a task that never exists
TaskIds == {1, 2} \cup 4..(MaxTasks + 1)

NextTask ==
    \/ \E h \in SessionHeaders, b \in CreateBodies :
          \E e \in Emits(create_task_check(h, b)) : CreateTask(h, b, e)
    \/ \E h \in SessionHeaders, id \in TaskIds, b \in UpdateBodies :
          \E e \in Emits(update_task_check(h, id, b)) : UpdateTask(h, id, b, e)
    \/ \E h \in SessionHeaders, id \in TaskIds :
          \E e \in Emits(delete_task_check(h, id)) : DeleteTask(h, id, e)
    \/ \E r \in {"user", "admin"} : ChangeRole(SuperHeader, 3, [role |-> r])

SpecTask == InitLoggedIn /\ [][NextTask]_vars

(* C5: a task row is changed or removed only by an update or delete request
   on that task whose token belongs to a super_admin, or to an admin whose id
   is the task's author_id; an update or delete request on an existing task
   whose token belongs to a user, or to an admin who is not the author, leaves
   the tasks table unchanged and is answered 403 Forbidden (whenever it gets
   as far as the permission test: canonical scheme, and a body for an update). *)
C5_TaskMutationAuthorized ==
    [][ /\ \A id \in DOMAIN tasks :
             (id \notin DOMAIN tasks' \/ tasks'[id] # tasks[id]) =>
                 /\ last'.op \in {"update_task", "delete_task"}
                 /\ last'.id = id
                 /\ token_required(last'.hdr).code = 200
                 /\ LET actor == token_required(last'.hdr).current_user
                    IN  \/ actor.role = "super_admin"
                        \/ actor.role = "admin" /\ tasks[id].author_id = actor.id
        /\ ( /\ last'.op \in {"update_task", "delete_task"}
             /\ last' # last
             /\ last'.id \in DOMAIN tasks
             /\ token_required(last'.hdr).code = 200
             /\ LET actor == token_required(last'.hdr).current_user
                IN  \/ actor.role = "user"
                    \/ actor.role = "admin" /\ tasks[last'.id].author_id # actor.id )
           => /\ tasks' = tasks
              /\ last'.code \in {400, 403, 500}
              /\ (last'.hdr[1] = "Bearer" /\ last'.body # EmptyBody)
                    => last'.code = 403
      ]_vars

\* an admin who has been made admin and authored nothing was just refused, and
\* tasks have been changed by then
C5_Witness ==
    /\ last.op \in {"update_task", "delete_task"}
    /\ last.code = 403
    /\ last.hdr = <<"Bearer", Tok(3)>>
    /\ users[3].role = "admin"
    /\ last.id \in DOMAIN tasks
    /\ tasks # SeedTasks

(* C6: a create request with a valid body whose token belongs to an admin or
   a super_admin inserts the task (and is answered 201 when the event was
   published); a create request whose token belongs to a user is answered 403
   Forbidden and inserts nothing; no task row appears in any other way. *)
C6_TaskCreateAuthorized ==
    [][ /\ (last'.op = "create_task" /\ token_required(last'.hdr).code = 200) =>
             LET actor == token_required(last'.hdr).current_user
             IN  /\ actor.role = "user" =>
                     /\ last'.code = 403
                     /\ tasks' = tasks
                     /\ nextTaskId' = nextTaskId
                 /\ ( /\ actor.role \in {"admin", "super_admin"}
                      /\ last'.body # None
                      /\ validate_task_data(last'.body, TRUE) = {} )
                    => /\ last'.id = nextTaskId
                       /\ DOMAIN tasks' = DOMAIN tasks \cup {nextTaskId}
                       /\ nextTaskId \notin DOMAIN tasks
                       /\ tasks'[nextTaskId].title = last'.body["title"]
                       /\ last'.code \in {201, 500}
                       /\ last'.steps = <<"persist", "broadcast", "invalidate_list",
                                          "invalidate_detail">> => last'.code = 201
        /\ DOMAIN tasks' \ DOMAIN tasks # {} =>
             /\ last'.op = "create_task"
             /\ token_required(last'.hdr).code = 200
             /\ token_required(last'.hdr).current_user.role \in {"admin", "super_admin"}
      ]_vars

\* a user promoted to admin has created a task
C6_Witness ==
    /\ last.op = "create_task"
    /\ last.code = 201
    /\ last.hdr = <<"Bearer", Tok(3)>>
    /\ last.id \in DOMAIN tasks

(* --------------------------------- comments ---------------------------- *)

CommentBodies ==
    { [text |-> "Hello"],
      [text |-> "   ", author_id |-> 3],
      [text |-> "Hello", author_id |-> 3] }

EditBodies ==
    { EmptyBody,
      [text |-> "   "],
      [text |-> "Edited"] }

\* the requests address comment 2 (of the user ivan), the created comments
\* and a comment that never exists
CommentIds == {2} \cup 4..(MaxComments + 1)

\* Authorization headers: none, an unknown token, and the sessions of the
\* super_admin, the admin, the user ivan and the user anna
CommentHeaders == {NoHeader} \cup {<<"Bearer", Tok(n)>> : n \in 0..4}

NextComment ==
    \/ \E h \in CommentHeaders, t \in {1, 9}, b \in CommentBodies :
          \E e \in Emits(add_comment_check(t, b)) : AddComment(h, t, b, e)
    \/ \E h \in CommentHeaders, id \in CommentIds, b \in EditBodies :
          \E e \in Emits(update_comment_check(h, id, b)) : UpdateComment(h, id, b, e)
    \/ \E h \in CommentHeaders, id \in CommentIds :
          \E e \in Emits(IF id \in DOMAIN comments THEN 0 ELSE 404) :
              DeleteComment(h, id, e)

SpecComment == InitLoggedIn /\ [][NextComment]_vars

(* C7: a request to add a comment that has just inserted a comment carried a
   valid token. *)
C7_CommentCreateAuthenticated ==
    (last.op = "add_comment" /\ last.id # 0) => token_required(last.hdr).code = 200

(* C8: a delete request that has just removed a comment carried the token of
   the comment's author, of an admin or of a super_admin. *)
C8_CommentDeleteAuthorized ==
    (last.op = "delete_comment" /\ last.row # None) =>
        /\ token_required(last.hdr).code = 200
        /\ LET actor == token_required(last.hdr).current_user
           IN  \/ actor.role \in {"admin", "super_admin"}
               \/ actor.id = last.row.author_id

(* C9: the text of a comment changes only by an update request on that
   comment whose token is valid and belongs to the comment's author, to an
   admin or to a super_admin; an update request on an existing comment from
   anybody else leaves the comments unchanged and is answered 401 (no valid
   token) or, with a text, 403. *)
C9_CommentEditAuthorized ==
    [][ /\ \A id \in DOMAIN comments \cap DOMAIN comments' :
             comments'[id].text # comments[id].text =>
                 /\ last'.op = "update_comment"
                 /\ last'.id = id
                 /\ token_required(last'.hdr).code = 200
                 /\ LET actor == token_required(last'.hdr).current_user
                    IN  \/ actor.role \in {"admin", "super_admin"}
                        \/ actor.id = comments[id].author_id
        /\ ( /\ last'.op = "update_comment"
             /\ last' # last
             /\ last'.id \in DOMAIN comments
             /\ \/ token_required(last'.hdr).code # 200
                \/ LET actor == token_required(last'.hdr).current_user
                   IN  /\ actor.role \notin {"admin", "super_admin"}
                       /\ actor.id # comments[last'.id].author_id )
           => /\ comments' = comments
              /\ last'.code \in {400, 401, 403}
              /\ token_required(last'.hdr).code # 200 => last'.code = 401
              /\ ( /\ token_required(last'.hdr).code = 200
                   /\ Strip(Get(last'.body, "text", "")) # "" ) => last'.code = 403
      ]_vars

\* a user who is not the author was just refused, after an author edited
C9_Witness ==
    /\ last.op = "update_comment"
    /\ last.code = 403
    /\ \E id \in DOMAIN comments : comments[id].text = "Edited"

(* ---------------------------------- admin ------------------------------ *)

RoleBodies == {EmptyBody} \cup {[role |-> r] : r \in Roles}

\* the requests address the super_admin, the admin, the user ivan and a user
\* that never exists
UserIds == {1, 2, 3, 9}

\* Authorization headers: none, an unknown token, the sessions of the
\* super_admin, the admin and the user ivan, and the super_admin's session
\* under the lower-case scheme
AdminHeaders ==
    {NoHeader} \cup {<<"Bearer", Tok(n)>> : n \in 0..3} \cup {<<"bearer", Tok(1)>>}

NextAdmin ==
    \/ \E h \in AdminHeaders, u \in UserIds, b \in RoleBodies : ChangeRole(h, u, b)
    \/ \E h \in AdminHeaders, u \in UserIds : DeleteUser(h, u)

SpecAdmin == InitLoggedIn /\ [][NextAdmin]_vars

(* C10: the users table changes only by a role change or a user deletion
   whose token belongs to a super_admin and whose target is not that
   super_admin; a role change or a deletion requested by a user or an admin,
   and a super_admin's demotion or deletion of themselves, is denied (403 for
   user and admin, 400 for self, under the canonical scheme) and leaves the
   users table unchanged. *)
C10_UserAdminAuthorized ==
    [][ /\ users' # users =>
             /\ last'.op \in {"change_role", "delete_user"}
             /\ token_required(last'.hdr).code = 200
             /\ token_required(last'.hdr).current_user.role = "super_admin"
             /\ token_required(last'.hdr).current_user.id # last'.id
             /\ last'.code = 200
        /\ ( /\ last'.op \in {"change_role", "delete_user"}
             /\ last' # last
             /\ token_required(last'.hdr).code = 200 )
           => LET actor == token_required(last'.hdr).current_user
                  self  == /\ actor.role = "super_admin"
                           /\ actor.id = last'.id
                           /\ \/ last'.op = "delete_user"
                              \/ Get(last'.body, "role", Null) \in Roles \ {"super_admin"}
              IN  /\ actor.role \in {"user", "admin"} =>
                      /\ users' = users
                      /\ last'.code \in {403, 500}
                      /\ last'.hdr[1] = "Bearer" => last'.code = 403
                  /\ self =>
                      /\ users' = users
                      /\ last'.code \in {400, 500}
                      /\ last'.hdr[1] = "Bearer" => last'.code = 400
      ]_vars

\* a promoted super_admin was just refused their own demotion
C10_Witness ==
    /\ last.op \in {"change_role", "delete_user"}
    /\ last.code = 400
    /\ last.hdr = <<"Bearer", Tok(3)>>
    /\ last.id = 3
    /\ users # SeedUsers

(* ------- specification: reads and writes of tasks that interleave ------ *)

\* The handlers run on the threads of one process and share the module-level
\* cache without a lock: a thread may be preempted between any two of the
\* calls a handler makes.  A read is `clean` when no write was between its
\* commit and its response when the read started, and none committed while
\* the read was in flight; `current` is what the database held when the read
\* was answered.

ReadStages == {"get_task_db", "get_task_store", "get_tasks_db", "get_tasks_store"}

WriteStages == {"write_invalidate", "write_respond"}

\* a commit happens while these requests are in flight: their reads are not clean
Overtaken(p, mine) ==
    [q \in Processes |->
        IF q = p THEN mine
        ELSE IF pc[q] \in ReadStages THEN [loc[q] EXCEPT !.clean = FALSE]
        ELSE loc[q]]

StartsClean == \A q \in Processes : pc[q] \notin WriteStages

\* the query strings of GET /api/tasks: none, and ?status=done
ListQueries == {EmptyBody, [status |-> "done"]}

DefaultLimit == 100

DefaultPage == 1

\* what get_tasks would answer from the database at this moment
ListNow(filters) ==
    LET rows == get_all_tasks(filters, DefaultLimit, (DefaultPage - 1) * DefaultLimit)
    IN  [count |-> Len(rows), tasks |-> rows]

\* get_task up to the return of get_cached_task_detail
GetTaskLookup(p, task_id) ==
    LET task == get_cached_task_detail(task_id)
    IN  /\ pc[p] = "idle"
        /\ TASK_DETAIL_CACHE' = get_cached_task_detail_dict(task_id)
        /\ IF task # None
           THEN /\ last' = [op |-> "get_task", id |-> task_id, code |-> 200,
                            result |-> task, clean |-> StartsClean,
                            current |-> get_task_by_id(task_id)]
                /\ UNCHANGED procVars
           ELSE /\ pc' = [pc EXCEPT ![p] = "get_task_db"]
                /\ loc' = [loc EXCEPT ![p] = [id |-> task_id, clean |-> StartsClean,
                                              data |-> None]]
                /\ UNCHANGED last
        /\ UNCHANGED <<dbVars, tokenVars, TASK_LIST_CACHE, now, histVars>>

\* get_task: database.get_task_by_id after the miss
GetTaskDb(p) ==
    LET task == get_task_by_id(loc[p].id)
    IN  /\ pc[p] = "get_task_db"
        /\ IF task = None
           THEN /\ last' = [op |-> "get_task", id |-> loc[p].id, code |-> 404,
                            result |-> None, clean |-> loc[p].clean,
                            current |-> None]
                /\ pc' = [pc EXCEPT ![p] = "idle"]
                /\ loc' = [loc EXCEPT ![p] = None]
           ELSE /\ pc' = [pc EXCEPT ![p] = "get_task_store"]
                /\ loc' = [loc EXCEPT ![p].data = task]
                /\ UNCHANGED last
        /\ UNCHANGED <<dbVars, tokenVars, cacheVars, now, histVars>>

\* get_task: set_cached_task_detail and the response
GetTaskStore(p) ==
    /\ pc[p] = "get_task_store"
    /\ TASK_DETAIL_CACHE' = set_cached_task_detail(loc[p].id, loc[p].data)
    /\ last' = [op |-> "get_task", id |-> loc[p].id, code |-> 200,
                result |-> loc[p].data, clean |-> loc[p].clean,
                current |-> get_task_by_id(loc[p].id)]
    /\ pc' = [pc EXCEPT ![p] = "idle"]
    /\ loc' = [loc EXCEPT ![p] = None]
    /\ UNCHANGED <<dbVars, tokenVars, TASK_LIST_CACHE, now, histVars>>

\* get_tasks up to the return of get_cached_task_list
GetTasksLookup(p, filters) ==
    LET key    == make_task_list_cache_key(filters, DefaultPage, DefaultLimit)
        cached == get_cached_task_list(key)
    IN  /\ pc[p] = "idle"
        /\ TASK_LIST_CACHE' = get_cached_task_list_slot(key)
        /\ IF cached # None
           THEN /\ last' = [op |-> "get_tasks", id |-> filters, code |-> 200,
                            result |-> cached, clean |-> StartsClean,
                            current |-> ListNow(filters)]
                /\ UNCHANGED procVars
           ELSE /\ pc' = [pc EXCEPT ![p] = "get_tasks_db"]
                /\ loc' = [loc EXCEPT ![p] = [id |-> filters, clean |-> StartsClean,
                                              data |-> None]]
                /\ UNCHANGED last
        /\ UNCHANGED <<dbVars, tokenVars, TASK_DETAIL_CACHE, now, histVars>>

\* get_tasks: database.get_all_tasks after the miss
GetTasksDb(p) ==
    /\ pc[p] = "get_tasks_db"
    /\ pc' = [pc EXCEPT ![p] = "get_tasks_store"]
    /\ loc' = [loc EXCEPT ![p].data = ListNow(loc[p].id)]
    /\ UNCHANGED <<dbVars, tokenVars, cacheVars, now, last, histVars>>

\* get_tasks: set_cached_task_list and the response
GetTasksStore(p) ==
    /\ pc[p] = "get_tasks_store"
    /\ TASK_LIST_CACHE' =
          set_cached_task_list(make_task_list_cache_key(loc[p].id, DefaultPage,
                                                        DefaultLimit), loc[p].data)
    /\ last' = [op |-> "get_tasks", id |-> loc[p].id, code |-> 200,
                result |-> loc[p].data, clean |-> loc[p].clean,
                current |-> ListNow(loc[p].id)]
    /\ pc' = [pc EXCEPT ![p] = "idle"]
    /\ loc' = [loc EXCEPT ![p] = None]
    /\ UNCHANGED <<dbVars, tokenVars, TASK_DETAIL_CACHE, now, histVars>>

\* create_task up to the commit of database.create_task
PostTaskPersist(p, h, body) ==
    LET c == create_task_check(h, body)
    IN  /\ pc[p] = "idle"
        /\ IF c # 0
           THEN /\ last' = [op |-> "create_task", hdr |-> h, id |-> 0, body |-> body,
                            code |-> c, steps |-> <<>>]
                /\ UNCHANGED <<tasks, nextTaskId, procVars>>
           ELSE /\ nextTaskId <= MaxTasks
                /\ tasks' = Put(tasks, nextTaskId, create_task_values(body))
                /\ nextTaskId' = nextTaskId + 1
                /\ pc' = [pc EXCEPT ![p] = "write_invalidate"]
                /\ loc' = Overtaken(p, [op |-> "create_task", hdr |-> h,
                                        id |-> nextTaskId, body |-> body,
                                        code |-> 201,
                                        steps |-> <<"persist", "broadcast">>])
                /\ UNCHANGED last
        /\ UNCHANGED <<users, nextUserId, comments, nextCommentId, tokenVars,
                       cacheVars, now, histVars>>

\* update_task up to the commit of database.update_task
PutTaskPersist(p, h, task_id, body) ==
    LET c == update_task_check(h, task_id, body)
    IN  /\ pc[p] = "idle"
        /\ IF c # 0 \/ ~update_task_ok(task_id, filtered_data(body))
           THEN /\ last' = [op |-> "update_task", hdr |-> h, id |-> task_id,
                            body |-> body, code |-> IF c # 0 THEN c ELSE 400,
                            steps |-> <<>>]
                /\ UNCHANGED <<tasks, procVars>>
           ELSE /\ tasks' = update_task_rows(task_id, filtered_data(body))
                /\ pc' = [pc EXCEPT ![p] = "write_invalidate"]
                /\ loc' = Overtaken(p, [op |-> "update_task", hdr |-> h,
                                        id |-> task_id, body |-> body, code |-> 200,
                                        steps |-> <<"persist">>])
                /\ UNCHANGED last
        /\ auth_tokens' = IF token_required(h).code = 200 THEN resolve_sweep(h)
                          ELSE auth_tokens
        /\ UNCHANGED <<users, nextUserId, nextTaskId, comments, nextCommentId,
                       nextToken, cacheVars, now, histVars>>

\* delete_task up to the commit of its DELETE
DeleteTaskPersist(p, h, task_id) ==
    LET c == delete_task_check(h, task_id)
    IN  /\ pc[p] = "idle"
        /\ IF c # 0
           THEN /\ last' = [op |-> "delete_task", hdr |-> h, id |-> task_id,
                            body |-> EmptyBody, code |-> c, steps |-> <<>>]
                /\ UNCHANGED <<tasks, procVars>>
           ELSE /\ tasks' = delete_task_rows(task_id)
                /\ pc' = [pc EXCEPT ![p] = "write_invalidate"]
                /\ loc' = Overtaken(p, [op |-> "delete_task", hdr |-> h,
                                        id |-> task_id, body |-> EmptyBody,
                                        code |-> 200, steps |-> <<"persist">>])
                /\ UNCHANGED last
        /\ auth_tokens' = IF token_required(h).code = 200 THEN resolve_sweep(h)
                          ELSE auth_tokens
        /\ UNCHANGED <<users, nextUserId, nextTaskId, comments, nextCommentId,
                       nextToken, cacheVars, now, histVars>>

\* the writers: invalidate_task_list_cache, then invalidate_task_detail
WriteInvalidate(p) ==
    /\ pc[p] = "write_invalidate"
    /\ TASK_LIST_CACHE' = invalidate_task_list_cache
    /\ TASK_DETAIL_CACHE' = invalidate_task_detail(loc[p].id)
    /\ pc' = [pc EXCEPT ![p] = "write_respond"]
    /\ loc' = [loc EXCEPT ![p].steps = @ \o <<"invalidate_list", "invalidate_detail">>]
    /\ UNCHANGED <<dbVars, tokenVars, now, last, histVars>>

\* the writers: the rest of the handler (update_task publishes here) and the response
WriteRespond(p) ==
    /\ pc[p] = "write_respond"
    /\ last' = [loc[p] EXCEPT !.steps = IF loc[p].op = "create_task" THEN @
                                        ELSE @ \o <<"broadcast">>]
    /\ pc' = [pc EXCEPT ![p] = "idle"]
    /\ loc' = [loc EXCEPT ![p] = None]
    /\ UNCHANGED <<dbVars, tokenVars, cacheVars, now, histVars>>

CacheHeaders == {NoHeader, SuperHeader}

NextCache ==
    \/ \E p \in Processes, id \in {1, 4} : GetTaskLookup(p, id)
    \/ \E p \in Processes : GetTaskDb(p)
    \/ \E p \in Processes : GetTaskStore(p)
    \/ \E p \in Processes, f \in ListQueries : GetTasksLookup(p, f)
    \/ \E p \in Processes : GetTasksDb(p)
    \/ \E p \in Processes : GetTasksStore(p)
    \/ \E p \in Processes, h \in CacheHeaders :
          PostTaskPersist(p, h, [title |-> "New task", author_id |-> 2])
    \/ \E p \in Processes, h \in CacheHeaders :
          PutTaskPersist(p, h, 1, [status |-> "done"])
    \/ \E p \in Processes, h \in CacheHeaders : DeleteTaskPersist(p, h, 1)
    \/ \E p \in Processes : WriteInvalidate(p)
    \/ \E p \in Processes : WriteRespond(p)

SpecCache == InitLoggedIn /\ [][NextCache]_vars

(* C4: a task-detail or task-list read that started when every committed
   write had already been answered, and during which no write committed,
   returns the data the database holds: the row (or 404) for a detail read,
   the query's rows for a list read. *)
C4_ReadsSeeCompletedWrites ==
    (last.op \in {"get_task", "get_tasks"} /\ last.clean) => last.result = last.current

(* ------------------- specification: registration and roles ------------- *)

\* re.match(r"^[^@\s]+@[^@\s]+\.[^@\s]+$", email) on the addresses used here
IsEmail(s) == s \in {"super@mail.ru", "admin@mail.ru", "ivan@mail.ru", "anna@mail.ru",
                     "new@mail.ru"}

\* validators.validate_email: TRUE when it returns no error
validate_email(email) == email # "" /\ IsEmail(Strip(email))

\* validators.validate_username: TRUE when it returns no error
validate_username(username) ==
    /\ username # ""
    /\ Len(Strip(username)) >= 2
    /\ Len(Strip(username)) <= 50

\* mutant of register_fields: the email is stored as it was sent
register_fields_raw_email(body) ==
    LET or(x, d) == IF x = Null \/ x = "" THEN d ELSE x
    IN  [email    |-> or(Get(body, "email", Null), ""),
         username |-> Strip(or(Get(body, "username", Null), "")),
         password |-> or(Get(body, "password", Null), ""),
         role     |-> or(Get(body, "role", Null), "user")]

\* register: the fields it reads from the body (`x or default`)
register_fields(body) ==
    LET or(x, d) == IF x = Null \/ x = "" THEN d ELSE x
    IN  [email    |-> Strip(or(Get(body, "email", Null), "")),
         username |-> Strip(or(Get(body, "username", Null), "")),
         password |-> or(Get(body, "password", Null), ""),
         role     |-> or(Get(body, "role", Null), "user")]

\* register: the status it answers before the INSERT, 0 when it goes on to it
register_check(body) ==
    LET f == register_fields(body)
    IN  IF \/ ~validate_email(f.email)
           \/ ~validate_username(f.username)
           \/ Len(f.password) < 6
           \/ f.role \notin Roles
        THEN 400
        ELSE IF get_user_by_email(f.email) # None THEN 400
        ELSE 0

\* POST /auth/register: no decorator
Register(body) ==
    LET c == register_check(body)
        f == register_fields(body)
    IN  /\ IF c # 0
           THEN /\ last' = [op |-> "register", hdr |-> NoHeader, id |-> 0,
                            body |-> body, code |-> c]
                /\ UNCHANGED <<users, nextUserId, registered>>
           ELSE /\ nextUserId <= MaxUsers
                /\ users' = Put(users, nextUserId,
                                [email |-> f.email, username |-> f.username,
                                 password_hash |-> generate_password_hash(f.password),
                                 role |-> f.role])
                /\ nextUserId' = nextUserId + 1
                /\ registered' = registered \cup {body}
                /\ last' = [op |-> "register", hdr |-> NoHeader, id |-> nextUserId,
                            body |-> body, code |-> 201]
        /\ UNCHANGED <<tasks, nextTaskId, comments, nextCommentId, tokenVars,
                       cacheVars, now, procVars, minted>>

RegisterBodies ==
    { EmptyBody,
      [email |-> "ivan@mail.ru", username |-> "ivan2", password |-> "123456"],
      [email |-> "new@mail.ru", username |-> "new", password |-> "123"],
      [email |-> "new@mail.ru", username |-> "new", password |-> "123456"],
      [email |-> "new@mail.ru", username |-> "new", password |-> "123456",
       role |-> "owner"] }
      \cup {[email |-> "new@mail.ru", username |-> "new", password |-> "123456",
             role |-> r] : r \in Roles}

NextRegister ==
    \/ \E b \in RegisterBodies : Register(b)
    \/ \E h \in {SuperHeader, <<"Bearer", Tok(2)>>}, u \in {3, 5}, r \in Roles :
          ChangeRole(h, u, [role |-> r])

SpecRegister == InitLoggedIn /\ [][NextRegister]_vars

(* C11: a user comes to hold the role super_admin (a new row with that role,
   or a row whose role becomes super_admin) only in a role change requested
   with the token of a user who is super_admin; a registration never does it. *)
C11_SuperAdminOnlyByPromotion ==
    [][ \A u \in DOMAIN users' :
          ( /\ users'[u].role = "super_admin"
            /\ u \in DOMAIN users => users[u].role # "super_admin" )
          => /\ last'.op = "change_role"
             /\ token_required(last'.hdr).code = 200
             /\ token_required(last'.hdr).current_user.role = "super_admin"
      ]_vars

(* C12: for every token, both resolvers answer nobody when its row is absent
   or expires_at <= now (the instant now = expires_at included), and both
   answer its user otherwise; so they never disagree. *)
C12_ResolversAgreeOnExpiry ==
    \A t \in TokenStrings :
        IF t \notin DOMAIN auth_tokens \/ auth_tokens[t].expires_at <= now
        THEN /\ get_user_by_token(t) = None
             /\ get_user_by_access_token(t) = None
        ELSE /\ get_user_by_token(t) # None
             /\ get_user_by_access_token(t) # None
             /\ get_user_by_token(t) = get_user_by_access_token(t)

(* C13: the token a successful refresh returns expires at now + the session
   TTL that login grants (TOKEN_TTL_MINUTES), whatever lifetime the old token
   had left. *)
C13_RefreshGrantsFullTtl ==
    (last.op = "refresh" /\ last.code = 200) =>
        /\ last.new_token \in DOMAIN auth_tokens
        /\ auth_tokens[last.new_token].expires_at =
              now + TOKEN_TTL_MINUTES * SECONDS_PER_MINUTE

(* ---------------- specification: roles, sessions and statistics -------- *)

\* database.get_task_stats: the number of tasks per status and per priority
get_task_stats ==
    [by_status   |-> [v \in {tasks[i].status : i \in DOMAIN tasks} |->
                         Cardinality({i \in DOMAIN tasks : tasks[i].status = v})],
     by_priority |-> [v \in {tasks[i].priority : i \in DOMAIN tasks} |->
                         Cardinality({i \in DOMAIN tasks : tasks[i].priority = v})]]

\* get_active_users: a user's row with its counts of authored tasks and comments
active_user_row(u) ==
    [id |-> u, email |-> users[u].email, username |-> users[u].username,
     role |-> users[u].role,
     tasks_count |-> Cardinality({i \in DOMAIN tasks : tasks[i].author_id = u}),
     comments_count |-> Cardinality({i \in DOMAIN comments : comments[i].author_id = u})]

\* ORDER BY tasks_count + comments_count DESC, u.id
RECURSIVE most_active_first(_)
most_active_first(S) ==
    IF S = {} THEN <<>>
    ELSE LET act(u) == active_user_row(u).tasks_count + active_user_row(u).comments_count
             m == CHOOSE x \in S : \A y \in S :
                      \/ act(x) > act(y)
                      \/ act(x) = act(y) /\ x <= y
         IN  <<active_user_row(m)>> \o most_active_first(S \ {m})

\* database.get_active_users(limit)
get_active_users(limit) ==
    LET rows == most_active_first(DOMAIN users)
    IN  SubSeq(rows, 1, IF limit < Len(rows) THEN limit ELSE Len(rows))

ACTIVE_USERS_LIMIT == 10

\* mutant of stats_role_denied: nobody is refused
stats_role_denied_never(role) == FALSE

\* admin_stats: the role test (TRUE: 403)
stats_role_denied(role) == role \notin {"admin", "super_admin"}

\* GET /admin/stats behind token_required
AdminStats(h) ==
    LET g == token_required(h)
    IN  /\ last' = IF g.code # 200
                   THEN [op |-> "admin_stats", hdr |-> h, code |-> 401, stats |-> None,
                         active_users |-> None]
                   ELSE IF stats_role_denied(g.current_user.role)
                   THEN [op |-> "admin_stats", hdr |-> h, code |-> 403, stats |-> None,
                         active_users |-> None]
                   ELSE [op |-> "admin_stats", hdr |-> h, code |-> 200,
                         stats |-> get_task_stats,
                         active_users |-> get_active_users(ACTIVE_USERS_LIMIT)]
        /\ UNCHANGED <<dbVars, tokenVars, cacheVars, now, procVars, histVars>>

\* Authorization headers: none, an unknown token, and the sessions of the
\* super_admin, the admin and the user ivan
RoleHeaders == {NoHeader} \cup {<<"Bearer", Tok(n)>> : n \in 0..3}

NextRole ==
    \/ \E u \in {2, 3}, r \in Roles : ChangeRole(SuperHeader, u, [role |-> r])
    \/ \E h \in RoleHeaders : AdminStats(h)
    \/ \E h \in RoleHeaders, b \in CreateBodies :
          \E e \in Emits(create_task_check(h, b)) : CreateTask(h, b, e)
    \/ \E h \in RoleHeaders, id \in {1, 2} :
          \E e \in Emits(delete_task_check(h, id)) : DeleteTask(h, id, e)

SpecRole == InitLoggedIn /\ [][NextRole]_vars

(* C14: a request made with a still-valid token is authorized by the role its
   user holds in the users table at the time of the request, whatever role the
   user held when the token was issued: with role user, task creation, task
   deletion and the statistics are answered 403; with role admin or
   super_admin the statistics are answered 200 and a valid task creation
   inserts the task; a super_admin deletes any task. *)
C14_RoleReadFresh ==
    ( /\ last.op \in {"create_task", "admin_stats", "delete_task"}
      /\ Len(last.hdr) = 2
      /\ last.hdr[2] \in DOMAIN auth_tokens
      /\ auth_tokens[last.hdr[2]].expires_at > now
      /\ auth_tokens[last.hdr[2]].user_id \in DOMAIN users )
    => LET role == users[auth_tokens[last.hdr[2]].user_id].role
       IN  /\ (role = "user" /\ (last.op = "delete_task" => last.code # 404))
                => last.code = 403
           /\ (role # "user" /\ last.op = "admin_stats") => last.code = 200
           /\ (role # "user" /\ last.op = "create_task") => last.code # 403
           /\ ( /\ role # "user"
                /\ last.op = "create_task"
                /\ last.body # None
                /\ validate_task_data(last.body, TRUE) = {} )
              => last.id \in DOMAIN tasks
           /\ (role = "super_admin" /\ last.op = "delete_task" /\ last.code # 404)
                => last.code \in {200, 500} /\ last.id \notin DOMAIN tasks

\* ivan, a user when his session was issued and an admin now, has just been
\* let in with that session
C14_Witness ==
    /\ last.op \in {"create_task", "admin_stats"}
    /\ last.hdr = <<"Bearer", Tok(3)>>
    /\ last.code \in {200, 201}
    /\ SeedUsers[3].role = "user"
    /\ users[3].role = "admin"

(* C20: a statistics request whose token belongs to an admin or a
   super_admin is answered 200 with the statistics; one whose token belongs
   to a user is answered 403 Forbidden without them. *)
C20_StatsForAdminsOnly ==
    (last.op = "admin_stats" /\ token_required(last.hdr).code = 200) =>
        LET role == token_required(last.hdr).current_user.role
        IN  /\ role \in {"admin", "super_admin"} =>
                /\ last.code = 200
                /\ last.stats = get_task_stats
                /\ last.active_users = get_active_users(ACTIVE_USERS_LIMIT)
            /\ role = "user" =>
                /\ last.code = 403
                /\ last.stats = None
                /\ last.active_users = None

\* the admin, demoted to user, was just refused the statistics
C20_Witness ==
    /\ last.op = "admin_stats"
    /\ last.code = 403
    /\ last.hdr = <<"Bearer", Tok(2)>>

(* ------------------------ specification: revocation -------------------- *)

\* database.delete_access_token(token), called on its own
Revoke(token) ==
    /\ auth_tokens' = delete_access_token(token)
    /\ last' = [op |-> "revoke", token |-> token,
                result |-> delete_access_token_result(token)]
    /\ UNCHANGED <<dbVars, nextToken, cacheVars, now, procVars, histVars>>

NextRevoke ==
    \/ \E e \in Emails, pw \in Passwords : Login(e, pw)
    \/ \E h \in Headers : GetMe(h)
    \/ \E t \in TokenStrings : Revoke(t)
    \/ Tick

SpecRevoke == Init /\ [][NextRevoke]_vars

(* C15: revoking a token whose row exists returns true and removes that row
   only; revoking a token whose row is absent (in particular one that has
   just been revoked) returns false and changes no row; after either call the
   token resolves to nobody. *)
C15_RevokeIdempotent ==
    [][ last'.op = "revoke" =>
          LET t == last'.token
          IN  /\ t \in DOMAIN auth_tokens =>
                  /\ last'.result = TRUE
                  /\ DOMAIN auth_tokens' = DOMAIN auth_tokens \ {t}
              /\ t \notin DOMAIN auth_tokens =>
                  /\ last'.result = FALSE
                  /\ auth_tokens' = auth_tokens
              /\ (last.op = "revoke" /\ last.token = t) => last'.result = FALSE
              /\ \A x \in DOMAIN auth_tokens \ {t} :
                    x \in DOMAIN auth_tokens' /\ auth_tokens'[x] = auth_tokens[x]
              /\ \A x \in TokenStrings : x = t =>
                    /\ get_user_by_token(x)' = None
                    /\ get_user_by_access_token(x)' = None
      ]_vars

\* a token that had been issued and was still valid has been revoked twice in
\* a row: the second call has just returned false
C15_Witness ==
    /\ last.op = "revoke"
    /\ last.result = FALSE
    /\ last.token = Tok(1)
    /\ nextToken > 1
    /\ now < TOKEN_TTL_MINUTES * SECONDS_PER_MINUTE

(* ------------------- the order of the steps of a write ----------------- *)

\* the first position of step x in the sequence st, 0 when it is not there
StepAt(st, x) ==
    IF \E i \in 1..Len(st) : st[i] = x
    THEN CHOOSE i \in 1..Len(st) : st[i] = x /\ \A j \in 1..(i - 1) : st[j] # x
    ELSE 0

(* C16: every task create, update and delete that published its event had
   persisted the write first, then invalidated the list slot and the task's
   detail entry, and only then published. *)
C16_PersistInvalidatePublish ==
    ( /\ last.op \in {"create_task", "update_task", "delete_task"}
      /\ StepAt(last.steps, "broadcast") # 0 )
    => /\ StepAt(last.steps, "persist") = 1
       /\ StepAt(last.steps, "invalidate_list") > StepAt(last.steps, "persist")
       /\ StepAt(last.steps, "invalidate_detail") > StepAt(last.steps, "persist")
       /\ StepAt(last.steps, "broadcast") > StepAt(last.steps, "invalidate_list")
       /\ StepAt(last.steps, "broadcast") > StepAt(last.steps, "invalidate_detail")

(* ------------------ specification: the cache and the clock ------------- *)

\* GET /api/tasks/<id>, served in one piece
GetTask(task_id) ==
    LET cached == get_cached_task_detail(task_id)
        row    == get_task_by_id(task_id)
        task   == IF cached # None THEN cached ELSE row
    IN  /\ TASK_DETAIL_CACHE' =
              IF cached # None THEN TASK_DETAIL_CACHE
              ELSE IF row = None THEN get_cached_task_detail_dict(task_id)
              ELSE set_cached_task_detail(task_id, row)
        /\ last' = [op |-> "get_task", id |-> task_id,
                    code |-> IF task = None THEN 404 ELSE 200,
                    result |-> task, hit |-> cached # None, at |-> now,
                    expires_at |-> IF task_id \in DOMAIN TASK_DETAIL_CACHE
                                   THEN TASK_DETAIL_CACHE[task_id].expires_at
                                   ELSE 0]
        /\ UNCHANGED <<dbVars, tokenVars, TASK_LIST_CACHE, now, procVars, histVars>>

\* GET /api/tasks, served in one piece
GetTasks(filters) ==
    LET key    == make_task_list_cache_key(filters, DefaultPage, DefaultLimit)
        cached == get_cached_task_list(key)
    IN  /\ TASK_LIST_CACHE' =
              IF cached # None THEN TASK_LIST_CACHE
              ELSE set_cached_task_list(key, ListNow(filters))
        /\ last' = [op |-> "get_tasks", id |-> filters, code |-> 200,
                    result |-> IF cached # None THEN cached ELSE ListNow(filters),
                    hit |-> cached # None, at |-> now,
                    expires_at |-> IF TASK_LIST_CACHE.key = key
                                   THEN TASK_LIST_CACHE.expires_at ELSE 0]
        /\ UNCHANGED <<dbVars, tokenVars, TASK_DETAIL_CACHE, now, procVars, histVars>>

\* time passes, up to MaxNow
TickUntil == Tick /\ now' <= MaxNow

\* the writer of this specification: the seeded admin, who owns task 1
AdminHeader == <<"Bearer", Tok(2)>>

NextTtl ==
    \/ \E id \in {1, 4} : GetTask(id)
    \/ \E q \in ListQueries : GetTasks(q)
    \/ \E e \in BOOLEAN :
          CreateTask(AdminHeader, [title |-> "New task", author_id |-> 2], e)
    \/ \E e \in BOOLEAN : UpdateTask(AdminHeader, 1, [status |-> "done"], e)
    \/ \E e \in BOOLEAN : DeleteTask(SuperHeader, 1, e)
    \/ TickUntil

SpecTtl == InitLoggedIn /\ [][NextTtl]_vars

\* the keys of the list slot that the requests use
ListKeys == {make_task_list_cache_key(q, DefaultPage, DefaultLimit) : q \in ListQueries}

(* C19: an entry of the list slot or of the detail map is returned by get only
   while now < expires_at (the time it was stored plus TASK_CACHE_TTL); at
   every later instant, and at now = expires_at itself, get answers a miss
   and the entry is evicted; a request answered from the cache was answered
   before the entry's expiry time. *)
C19_CacheTtlExclusive ==
    /\ \A id \in DOMAIN TASK_DETAIL_CACHE :
          IF now < TASK_DETAIL_CACHE[id].expires_at
          THEN get_cached_task_detail(id) = TASK_DETAIL_CACHE[id].data
          ELSE /\ get_cached_task_detail(id) = None
               /\ id \notin DOMAIN get_cached_task_detail_dict(id)
    /\ \A key \in ListKeys :
          TASK_LIST_CACHE.key = key =>
             IF now < TASK_LIST_CACHE.expires_at
             THEN get_cached_task_list(key) = TASK_LIST_CACHE.data
             ELSE /\ get_cached_task_list(key) = None
                  /\ get_cached_task_list_slot(key) = EmptyListCache
    /\ (last.op \in {"get_task", "get_tasks"} /\ last.hit) => last.at < last.expires_at

\* the write of the last request is in place in the tasks table
WriteInPlace ==
    CASE last.op = "create_task" ->
            /\ last.id \in DOMAIN tasks
            /\ tasks[last.id] = create_task_values(last.body)
      [] last.op = "update_task" ->
            /\ last.id \in DOMAIN tasks
            /\ \A k \in DOMAIN filtered_data(last.body) :
                  tasks[last.id][k] = last.body[k]
      [] last.op = "delete_task" -> last.id \notin DOMAIN tasks

(* C17: when the publish of a task create, update or delete has failed, the
   write is still in place and the cache has been invalidated for it: the
   list slot is empty and the task has no detail entry. *)
C17_FailedPublishKeepsInvalidation ==
    ( /\ last.op \in {"create_task", "update_task", "delete_task"}
      /\ StepAt(last.steps, "broadcast_failed") # 0 )
    => /\ WriteInPlace
       /\ StepAt(last.steps, "invalidate_list") # 0
       /\ StepAt(last.steps, "invalidate_detail") # 0
       /\ TASK_LIST_CACHE = EmptyListCache
       /\ last.id \notin DOMAIN TASK_DETAIL_CACHE

(* C18: the comments die with their task: in every reachable state each
   comment's task_id references a task that exists, so after a task has been
   deleted no comment that references it remains. *)
C18_CommentsCascade ==
    \A c \in DOMAIN comments : comments[c].task_id \in DOMAIN tasks

(* --------------------- the answers to anonymous requests --------------- *)

\* the operations behind token_required, auth_required, admin_required or
\* super_admin_required
GuardedOps ==
    {"create_task", "update_task", "delete_task", "update_comment",
     "change_role", "delete_user", "admin_stats", "logout"}

(* C21: a write or admin request whose Authorization header is absent or
   carries a token that was never issued is answered 401, never with a
   success and never with an internal error. *)
C21_AnonymousIs401 ==
    ( /\ last.op \in GuardedOps
      /\ \/ last.hdr = NoHeader
         \/ (Len(last.hdr) = 2 /\ last.hdr[2] = Tok(0)) )
    => last.code = 401

(* ---------------- specification: registration, then login -------------- *)

\* registrations: a new address, the same with white space around it, one
\* that names a role, a seeded address, and a password that is too short
SignupBodies ==
    { [email |-> "new@mail.ru", username |-> "new", password |-> "123456"],
      [email |-> " new@mail.ru ", username |-> "new", password |-> "secret1"],
      [email |-> "new@mail.ru", username |-> "new", password |-> "secret1",
       role |-> "admin"],
      [email |-> "ivan@mail.ru", username |-> "ivan2", password |-> "secret1"],
      [email |-> "new@mail.ru", username |-> "new", password |-> "123"] }

NextSignup ==
    \/ \E b \in SignupBodies : Register(b)
    \/ \E b \in SignupBodies : \E pw \in {b.password, "wrong"} : Login(b.email, pw)
    \/ Tick

SpecSignup == Init /\ [][NextSignup]_vars

(* C22: a login with the email and the password of a registration that was
   answered 201 is answered 200 with a token that resolves to a user with that
   email; the user's role is user when the registration named no role. *)
C22_RegisteredCanLogin ==
    [][ \A b \in registered :
          ( /\ last'.op = "login"
            /\ last'.email = b.email
            /\ last'.password = b.password )
          => /\ last'.code = 200
             /\ \A t \in TokenStrings : t = last'.token =>
                   /\ get_user_by_token(t)' # None
                   /\ get_user_by_token(t)'.email = Strip(b.email)
                   /\ "role" \notin DOMAIN b => get_user_by_token(t)'.role = "user"
             /\ last'.token \in TokenStrings
      ]_vars

\* the address sent with white space around it was registered and has logged in
C22_Witness ==
    /\ last.op = "login"
    /\ last.code = 200
    /\ last.email = " new@mail.ru "
    /\ \E b \in registered : b.email = last.email /\ b.password = last.password

(* ------------- specification: registrations that interleave ------------ *)

\* mutant of create_user_inserts: the email column is not UNIQUE
create_user_inserts_always(email) == TRUE

\* database.create_user: the INSERT goes through (users.email is UNIQUE, an
\* IntegrityError makes create_user return None)
create_user_inserts(email) == \A u \in DOMAIN users : users[u].email # email

\* register up to the return of database.get_user_by_email
RegisterSelect(p, body) ==
    LET c == register_check(body)
    IN  /\ pc[p] = "idle"
        /\ IF c # 0
           THEN /\ last' = [op |-> "register", hdr |-> NoHeader, id |-> 0,
                            body |-> body, code |-> c]
                /\ UNCHANGED procVars
           ELSE /\ pc' = [pc EXCEPT ![p] = "register_insert"]
                /\ loc' = [loc EXCEPT ![p] = [body |-> body]]
                /\ UNCHANGED last
        /\ UNCHANGED <<dbVars, tokenVars, cacheVars, now, histVars>>

\* register: database.create_user and the response
RegisterInsert(p) ==
    LET body == loc[p].body
        f    == register_fields(body)
    IN  /\ pc[p] = "register_insert"
        /\ IF create_user_inserts(f.email)
           THEN /\ nextUserId <= MaxUsers
                /\ users' = Put(users, nextUserId,
                                [email |-> f.email, username |-> f.username,
                                 password_hash |-> generate_password_hash(f.password),
                                 role |-> f.role])
                /\ nextUserId' = nextUserId + 1
                /\ registered' = registered \cup {body}
                /\ last' = [op |-> "register", hdr |-> NoHeader, id |-> nextUserId,
                            body |-> body, code |-> 201]
           ELSE /\ last' = [op |-> "register", hdr |-> NoHeader, id |-> 0,
                            body |-> body, code |-> 500]
                /\ UNCHANGED <<users, nextUserId, registered>>
        /\ pc' = [pc EXCEPT ![p] = "idle"]
        /\ loc' = [loc EXCEPT ![p] = None]
        /\ UNCHANGED <<tasks, nextTaskId, comments, nextCommentId, tokenVars,
                       cacheVars, now, minted>>

NextSignupRace ==
    \/ \E p \in Processes, b \in SignupBodies : RegisterSelect(p, b)
    \/ \E p \in Processes : RegisterInsert(p)

SpecSignupRace == Init /\ [][NextSignupRace]_vars

(* C23: no two users share an email.  Every step leaves the emails of the
   users table pairwise distinct; a user row appears only in a registration
   answered 201 and carries an email that no user had; a registration with
   an email that exists is answered with a failure and adds no row, also
   when another registration with the same email is in flight. *)
C23_EmailUnique ==
    [][ /\ \A u1, u2 \in DOMAIN users' :
              users'[u1].email = users'[u2].email => u1 = u2
        /\ \A u \in DOMAIN users' \ DOMAIN users :
              /\ last'.op = "register" /\ last'.code = 201
              /\ \A v \in DOMAIN users : users[v].email # users'[u].email
        /\ ( /\ last'.op = "register"
             /\ last' # last
             /\ \E v \in DOMAIN users :
                   users[v].email = Strip(Get(last'.body, "email", "")) )
           => last'.code \in {400, 500} /\ users' = users
      ]_vars

\* two registrations with the same new email passed the look-up together: one
\* was answered 201, the INSERT of the other has just failed
C23_Witness ==
    /\ last.op = "register"
    /\ last.code = 500
    /\ \E u \in DOMAIN users \ DOMAIN SeedUsers :
          users[u].email = Strip(last.body.email)

(* -------------------- specification: updates of a task ----------------- *)

\* bodies of PUT /api/tasks/<id>: no allow-listed key; allow-listed keys with
\* null values only; a status; a title together with keys that are not
\* allow-listed; a status and a priority outside the enumerations
UpdateFieldBodies ==
    { [author_id |-> 3],
      [status |-> Null, author_id |-> 3],
      [status |-> "done"],
      [title |-> "Renamed", author_id |-> 3, id |-> 9, created_at |-> 5],
      [status |-> "Done"],
      [priority |-> "urgent"] }

NextUpdate ==
    \/ \E h \in {AdminHeader, <<"Bearer", Tok(3)>>}, b \in UpdateFieldBodies :
          \E e \in Emits(update_task_check(h, 1, b)) : UpdateTask(h, 1, b, e)
    \/ GetTask(1)
    \/ GetTasks(EmptyBody)
    \/ TickUntil

SpecUpdate == InitLoggedIn /\ [][NextUpdate]_vars

\* the allow-listed keys of a body whose value is not null
EffectiveFields(body) == {k \in DOMAIN body \cap ALLOWED_FIELDS : body[k] # Null}

(* C24: a task update whose body has no allow-listed key with a value that is
   not null is answered with a failure, leaves the tasks table (updated_at
   included) and both caches unchanged, and publishes nothing. *)
C24_EmptyUpdateIsNoOp ==
    [][ (last'.op = "update_task" /\ EffectiveFields(last'.body) = {})
        => /\ last'.code >= 400
           /\ tasks' = tasks
           /\ TASK_LIST_CACHE' = TASK_LIST_CACHE
           /\ TASK_DETAIL_CACHE' = TASK_DETAIL_CACHE
           /\ last'.steps = <<>>
      ]_vars

\* the owner of task 1 has sent null values only, later than the row was
\* written and while the list and the task's detail were cached
C24_Witness ==
    /\ last.op = "update_task"
    /\ last.hdr = AdminHeader
    /\ last.body = [status |-> Null, author_id |-> 3]
    /\ last.code = 400
    /\ now > tasks[1].updated_at
    /\ 1 \in DOMAIN TASK_DETAIL_CACHE
    /\ TASK_LIST_CACHE # EmptyListCache

(* C25: an update that was written changes one row only, and in it only the
   allow-listed fields the request supplied and updated_at, which does not
   decrease; the set of task ids, author_id, created_at and every field the
   request did not supply keep their values. *)
C25_UpdateFrame ==
    [][ (last'.op = "update_task" /\ last'.steps # <<>>)
        => /\ DOMAIN tasks' = DOMAIN tasks
           /\ \A t \in DOMAIN tasks \ {last'.id} : tasks'[t] = tasks[t]
           /\ \A f \in DOMAIN tasks[last'.id] :
                 IF f \in EffectiveFields(last'.body)
                 THEN tasks'[last'.id][f] = last'.body[f]
                 ELSE IF f = "updated_at"
                 THEN tasks'[last'.id][f] >= tasks[last'.id][f]
                 ELSE tasks'[last'.id][f] = tasks[last'.id][f]
      ]_vars

\* a written update whose body also named author_id, id and created_at, sent
\* after the clock had moved
C25_Witness ==
    /\ last.op = "update_task"
    /\ last.code = 200
    /\ last.body = [title |-> "Renamed", author_id |-> 3, id |-> 9, created_at |-> 5]
    /\ tasks[1].title = "Renamed"
    /\ tasks[1].updated_at > tasks[1].created_at

(* ------------- specification: status and priority of a task ------------ *)

\* bodies of POST /api/tasks: defaults, an enumerated status, a status in
\* another case, a priority and a status outside the enumerations, a JSON
\* array as status
EnumCreateBodies ==
    LET base == [title |-> "New task", author_id |-> 2]
    IN  { base,
          base @@ [status |-> "done"],
          base @@ [status |-> "Done"],
          base @@ [priority |-> "urgent"],
          base @@ [status |-> JsonList] }

\* bodies of PUT /api/tasks/<id>, likewise
EnumUpdateBodies ==
    { [status |-> "done"],
      [status |-> "Done"],
      [priority |-> "high"],
      [priority |-> "urgent"],
      [status |-> "cancelled", priority |-> JsonList] }

NextEnum ==
    \/ \E b \in EnumCreateBodies :
          \E e \in Emits(create_task_check(AdminHeader, b)) :
             CreateTask(AdminHeader, b, e)
    \/ \E id \in {1, 4}, b \in EnumUpdateBodies :
          \E e \in Emits(update_task_check(AdminHeader, id, b)) :
             UpdateTask(AdminHeader, id, b, e)

SpecEnum == InitLoggedIn /\ [][NextEnum]_vars

\* the body carries a status or a priority that is not one of the enumerated values
OutsideEnums(body) ==
    \/ Get(body, "status", Null) \notin ALLOWED_STATUSES \cup {Null}
    \/ Get(body, "priority", Null) \notin ALLOWED_PRIORITIES \cup {Null}

(* C26: every stored task has a status among the four enumerated values and a
   priority among the three; a create or update of an authorized caller that
   carries any other value is rejected with a validation failure (400) and
   changes no task. *)
C26_EnumsEnforced ==
    [][ /\ \A t \in DOMAIN tasks' :
              /\ tasks'[t].status \in ALLOWED_STATUSES
              /\ tasks'[t].priority \in ALLOWED_PRIORITIES
        /\ ( /\ last'.op \in {"create_task", "update_task"}
             /\ last'.code \notin {401, 403, 404}
             /\ OutsideEnums(last'.body) )
           => last'.code = 400 /\ tasks' = tasks
      ]_vars

(* --------------- specification: an admin's own creations --------------- *)

\* valid bodies of PUT /api/tasks/<id>
ValidUpdateBodies ==
    { [status |-> "done"],
      [priority |-> "high"],
      [title |-> "Renamed"] }

\* the seeded admin (user 2) creates tasks, naming the super_admin, themselves
\* or the user ivan as author, and then reads, updates and deletes what was
\* created while time passes; every publish succeeds
NextLifecycle ==
    \/ \E a \in 1..3 :
          CreateTask(AdminHeader, [title |-> "New task", author_id |-> a], TRUE)
    \/ \E id \in 4..MaxTasks, b \in ValidUpdateBodies :
          UpdateTask(AdminHeader, id, b, TRUE)
    \/ \E id \in 4..MaxTasks : DeleteTask(AdminHeader, id, TRUE)
    \/ \E id \in 4..MaxTasks : GetTask(id)
    \/ TickUntil

SpecLifecycle == InitLoggedIn /\ [][NextLifecycle]_vars

(* C27: the admin's update and delete of a task that the admin created, and
   that still exists, succeed (200), whatever author_id the create request
   named. *)
C27_CreatorCanMutate ==
    [][ ( /\ last'.op \in {"update_task", "delete_task"}
          /\ last'.hdr = AdminHeader
          /\ last'.id \in DOMAIN tasks \ DOMAIN SeedTasks )
        => last'.code = 200
      ]_vars

(* ------------------- readers of the token table ------------------------ *)

(* C28: while a refresh of t that will succeed is in flight, and t has not
   reached its expiry time meanwhile, a reader of the token table finds t
   resolving (the new token does not exist yet); once the refresh has
   committed the reader finds the new token resolving and t not; at no
   moment both, at no moment neither. *)
C28_ExactlyOneResolves ==
    [][ \A p \in Processes, t \in TokenStrings :
          ( /\ pc[p] = "refresh_write"
            /\ loc[p].old_token = t
            /\ t \in DOMAIN auth_tokens => auth_tokens[t].expires_at > now )
          => /\ get_user_by_token(t) # None
             /\ pc'[p] = "idle" =>
                   /\ get_user_by_token(t)' = None
                   /\ \A t2 \in TokenStrings :
                         t2 = last'.new_token => get_user_by_token(t2)' # None
      ]_vars

(* ------- specification: a request with a token that is being refreshed --- *)

\* update_task: its decorator token_required (database.get_user_by_token)
UpdateTaskGate(p, h, task_id, body) ==
    /\ pc[p] = "idle"
    /\ IF token_required(h).code # 200
       THEN /\ last' = [op |-> "update_task", hdr |-> h, id |-> task_id,
                        body |-> body, code |-> 401, steps |-> <<>>,
                        served |-> None]
            /\ UNCHANGED procVars
       ELSE /\ pc' = [pc EXCEPT ![p] = "update_handler"]
            /\ loc' = [loc EXCEPT ![p] = [hdr |-> h, id |-> task_id, body |-> body]]
            /\ UNCHANGED last
    /\ UNCHANGED <<dbVars, tokenVars, cacheVars, now, histVars>>

\* update_task: the handler, from resolve_current_user
\* (database.get_user_by_access_token) to the response
UpdateTaskHandler(p) ==
    LET h    == loc[p].hdr
        id   == loc[p].id
        body == loc[p].body
        c    == update_task_handler_check(h, id, body)
        ok   == c = 0 /\ update_task_ok(id, filtered_data(body))
    IN  /\ pc[p] = "update_handler"
        /\ tasks' = IF ok THEN update_task_rows(id, filtered_data(body)) ELSE tasks
        /\ TASK_LIST_CACHE' = IF ok THEN invalidate_task_list_cache ELSE TASK_LIST_CACHE
        /\ TASK_DETAIL_CACHE' = IF ok THEN invalidate_task_detail(id)
                                ELSE TASK_DETAIL_CACHE
        /\ auth_tokens' = resolve_sweep(h)
        /\ last' = [op |-> "update_task", hdr |-> h, id |-> id, body |-> body,
                    code |-> IF c # 0 THEN c ELSE IF ok THEN 200 ELSE 400,
                    steps |-> IF ok THEN Steps(TRUE, <<"persist", "invalidate_list",
                                                      "invalidate_detail">>, <<>>)
                              ELSE <<>>,
                    served |-> resolve_current_user(h).user]
        /\ pc' = [pc EXCEPT ![p] = "idle"]
        /\ loc' = [loc EXCEPT ![p] = None]
        /\ UNCHANGED <<users, nextUserId, nextTaskId, comments, nextCommentId,
                       nextToken, now, histVars>>

NextRotateUse ==
    \/ \E pw \in Passwords : Login("admin@mail.ru", pw)
    \/ \E t \in TokenStrings : Refresh(t)
    \/ \E p \in Processes, t \in TokenStrings, id \in {1, 2} :
          UpdateTaskGate(p, <<"Bearer", t>>, id, [status |-> "done"])
    \/ \E p \in Processes : UpdateTaskHandler(p)

SpecRotateUse == Init /\ [][NextRotateUse]_vars

(* C29: a request that presents a token under the scheme Bearer, whatever a
   refresh of that token does meanwhile, is either rejected with 401 or
   handled with a resolved user; it is never answered with an internal error
   and never handled with no user. *)
C29_ServedOrUnauthenticated ==
    last.op = "update_task" =>
        \/ last.code = 401
        \/ (last.code # 500 /\ last.served # None)

(* ------- specification: the list slot, statement by statement ---------- *)

\* cache.py keeps TASK_LIST_CACHE in a module-level dict and takes no lock;
\* under a threaded server another thread can run between any two of its
\* statements.  A thread p is at statement pc[p] of the call loc[p].

\* what get_tasks stores under the key of a query
DataFor(key) == ListNow(key.items)

\* a thread enters get_cached_task_list(key), set_cached_task_list(key, data)
\* or invalidate_task_list_cache()
SlotCall(p, fn, key) ==
    /\ pc[p] = "idle"
    /\ pc' = [pc EXCEPT ![p] = CASE fn = "get" -> "get_key"
                                 [] fn = "set" -> "set_key"
                                 [] fn = "invalidate" -> "reset_key"]
    /\ loc' = [loc EXCEPT ![p] = [fn |-> fn, key |-> key]]
    /\ UNCHANGED <<dbVars, tokenVars, cacheVars, now, last, histVars>>

\* a call returns
SlotReturn(p, result) ==
    /\ last' = [op |-> loc[p].fn, key |-> loc[p].key, result |-> result, code |-> 0]
    /\ pc' = [pc EXCEPT ![p] = "idle"]
    /\ loc' = [loc EXCEPT ![p] = None]

\* get_cached_task_list: if TASK_LIST_CACHE["key"] != key: return None
ListGetKey(p) ==
    /\ pc[p] = "get_key"
    /\ IF TASK_LIST_CACHE.key # loc[p].key
       THEN SlotReturn(p, None)
       ELSE /\ pc' = [pc EXCEPT ![p] = "get_expires"]
            /\ UNCHANGED <<loc, last>>
    /\ UNCHANGED <<dbVars, tokenVars, cacheVars, now, histVars>>

\* get_cached_task_list: if TASK_LIST_CACHE["expires_at"] < _now():
ListGetExpires(p) ==
    /\ pc[p] = "get_expires"
    /\ pc' = [pc EXCEPT ![p] = IF TASK_LIST_CACHE.expires_at < now
                               THEN "reset_key" ELSE "get_data"]
    /\ UNCHANGED <<dbVars, tokenVars, cacheVars, now, loc, last, histVars>>

\* get_cached_task_list: return TASK_LIST_CACHE["data"]
ListGetData(p) ==
    /\ pc[p] = "get_data"
    /\ SlotReturn(p, TASK_LIST_CACHE.data)
    /\ UNCHANGED <<dbVars, tokenVars, cacheVars, now, histVars>>

\* set_cached_task_list: TASK_LIST_CACHE["key"] = key
ListSetKey(p) ==
    /\ pc[p] = "set_key"
    /\ TASK_LIST_CACHE' = [TASK_LIST_CACHE EXCEPT !.key = loc[p].key]
    /\ pc' = [pc EXCEPT ![p] = "set_data"]
    /\ UNCHANGED <<dbVars, tokenVars, TASK_DETAIL_CACHE, now, loc, last, histVars>>

\* set_cached_task_list: TASK_LIST_CACHE["data"] = data
ListSetData(p) ==
    /\ pc[p] = "set_data"
    /\ TASK_LIST_CACHE' = [TASK_LIST_CACHE EXCEPT !.data = DataFor(loc[p].key)]
    /\ pc' = [pc EXCEPT ![p] = "set_expires"]
    /\ UNCHANGED <<dbVars, tokenVars, TASK_DETAIL_CACHE, now, loc, last, histVars>>

\* set_cached_task_list: TASK_LIST_CACHE["expires_at"] = _now() + TASK_CACHE_TTL
ListSetExpires(p) ==
    /\ pc[p] = "set_expires"
    /\ TASK_LIST_CACHE' = [TASK_LIST_CACHE EXCEPT !.expires_at = now + TASK_CACHE_TTL]
    /\ SlotReturn(p, None)
    /\ UNCHANGED <<dbVars, tokenVars, TASK_DETAIL_CACHE, now, histVars>>

\* invalidate_task_list_cache, and the expired branch of get_cached_task_list:
\* TASK_LIST_CACHE["key"] = None
ListResetKey(p) ==
    /\ pc[p] = "reset_key"
    /\ TASK_LIST_CACHE' = [TASK_LIST_CACHE EXCEPT !.key = None]
    /\ pc' = [pc EXCEPT ![p] = "reset_data"]
    /\ UNCHANGED <<dbVars, tokenVars, TASK_DETAIL_CACHE, now, loc, last, histVars>>

\* TASK_LIST_CACHE["data"] = None
ListResetData(p) ==
    /\ pc[p] = "reset_data"
    /\ TASK_LIST_CACHE' = [TASK_LIST_CACHE EXCEPT !.data = None]
    /\ pc' = [pc EXCEPT ![p] = "reset_expires"]
    /\ UNCHANGED <<dbVars, tokenVars, TASK_DETAIL_CACHE, now, loc, last, histVars>>

\* TASK_LIST_CACHE["expires_at"] = 0.0, and the return
ListResetExpires(p) ==
    /\ pc[p] = "reset_expires"
    /\ TASK_LIST_CACHE' = [TASK_LIST_CACHE EXCEPT !.expires_at = 0]
    /\ SlotReturn(p, None)
    /\ UNCHANGED <<dbVars, tokenVars, TASK_DETAIL_CACHE, now, histVars>>

NextSlot ==
    \/ \E p \in Processes, fn \in {"get", "set"}, k \in ListKeys : SlotCall(p, fn, k)
    \/ \E p \in Processes : SlotCall(p, "invalidate", None)
    \/ \E p \in Processes :
          \/ ListGetKey(p) \/ ListGetExpires(p) \/ ListGetData(p)
          \/ ListSetKey(p) \/ ListSetData(p) \/ ListSetExpires(p)
          \/ ListResetKey(p) \/ ListResetData(p) \/ ListResetExpires(p)
    \/ TickUntil

SpecSlot == Init /\ [][NextSlot]_vars

(* C30: whatever set_cached_task_list and invalidate_task_list_cache do in
   other threads meanwhile, a get_cached_task_list(k) that returns data
   returns the data that a set stored under that same key k. *)
C30_HitMatchesKey ==
    (last.op = "get" /\ last.result # None) => last.result = DataFor(last.key)

(* ------------- specification: the author named by a create ------------- *)

\* a user id that no row of users ever carries
AbsentAuthor == MaxUsers + 1

\* the seeded admin creates tasks naming as author themselves, the user anna
\* or a user that does not exist, while the super_admin may delete anna and
\* the created task is read as time passes; every publish succeeds
NextAuthor ==
    \/ \E a \in {2, 4, AbsentAuthor} :
          CreateTask(AdminHeader, [title |-> "New task", author_id |-> a], TRUE)
    \/ DeleteUser(SuperHeader, 4)
    \/ \E id \in 4..MaxTasks : GetTask(id)
    \/ TickUntil

SpecAuthor == InitLoggedIn /\ [][NextAuthor]_vars

(* C31: every task that is created has an author_id that references a user
   existing at the moment of creation; a create request naming a non-existent
   author creates no task. *)
C31_AuthorExistsAtCreation ==
    [][ /\ \A id \in DOMAIN tasks' \ DOMAIN tasks :
              tasks'[id].author_id \in DOMAIN users
        /\ ( /\ last'.op = "create_task"
             /\ last'.body # None
             /\ last'.body.author_id \notin DOMAIN users )
           => tasks' = tasks
      ]_vars

(* ------------------ refresh of an absent or expired token -------------- *)

(* C32: a refresh that presents a token which is absent from the token table,
   or whose expiry time has been reached, is answered 401, mints no token and
   leaves the token table unchanged. *)
C32_RefreshInvalidIs401 ==
    [][ ( /\ last'.op = "refresh"
          /\ last'.token # None
          /\ \/ last'.token \notin DOMAIN auth_tokens
             \/ \E t \in DOMAIN auth_tokens :
                   t = last'.token /\ auth_tokens[t].expires_at <= now )
        => /\ last'.code = 401
           /\ last'.new_token = None
           /\ auth_tokens' = auth_tokens
           /\ nextToken' = nextToken
           /\ minted' = minted
      ]_vars

\* a refresh has been refused for a token whose row exists and has expired
C32_Witness ==
    /\ last.op = "refresh"
    /\ last.code = 401
    /\ last.token \in DOMAIN auth_tokens
    /\ auth_tokens[last.token].expires_at <= now

(* ------------- specification: requests with a token that is no more ---- *)

\* a token value for which no row was ever inserted
NeverIssued == Tok(0)

\* the admin logs in and rotates tokens while time passes; /users/me (behind
\* token_required) and DELETE /admin/users/3 (behind super_admin_required) are
\* requested with every token value
NextOpaque ==
    \/ \E pw \in Passwords : Login("admin@mail.ru", pw)
    \/ \E t \in TokenStrings : Refresh(t)
    \/ \E t \in TokenStrings : GetMe(<<"Bearer", t>>)
    \/ \E t \in TokenStrings : DeleteUser(<<"Bearer", t>>, 3)
    \/ Tick

SpecOpaque == Init /\ [][NextOpaque]_vars

(* C33: on a given endpoint, a token that never existed, a token that has
   expired (expires_at <= now) and a token that was rotated away get the same
   response, and that response is Unauthenticated (401). *)
C33_InvalidTokensAlike ==
    [][ \A t \in TokenStrings :
          ( /\ last'.op \in {"get_me", "delete_user"}
            /\ last'.hdr = <<"Bearer", t>>
            /\ \/ t \notin DOMAIN auth_tokens
               \/ \E x \in DOMAIN auth_tokens :
                     x = t /\ auth_tokens[x].expires_at <= now )
          => /\ last'.code = 401
             /\ last'.op = "get_me" =>
                   last'.code = token_required(<<"Bearer", NeverIssued>>).code
             /\ last'.op = "delete_user" =>
                   last'.code = delete_user_check(<<"Bearer", NeverIssued>>, last'.id)
      ]_vars

(* ------------- specification: refused and served requests -------------- *)

\* every guarded handler is requested without a header, with an unknown token
\* and with the sessions of the super_admin, the admin and the user ivan; the
\* detail of task 1 is read in between, which fills the detail cache
NextFrame ==
    \/ \E h \in RoleHeaders :
          \E e \in Emits(create_task_check(h, [title |-> "New task", author_id |-> 2])) :
              CreateTask(h, [title |-> "New task", author_id |-> 2], e)
    \/ \E h \in RoleHeaders, id \in {1, 2} :
          \E e \in Emits(update_task_check(h, id, [status |-> "done"])) :
              UpdateTask(h, id, [status |-> "done"], e)
    \/ \E h \in RoleHeaders, id \in {1, 2} :
          \E e \in Emits(delete_task_check(h, id)) : DeleteTask(h, id, e)
    \/ \E h \in RoleHeaders :
          \E e \in Emits(update_comment_check(h, 2, [text |-> "Edited"])) :
              UpdateComment(h, 2, [text |-> "Edited"], e)
    \/ \E h \in RoleHeaders : ChangeRole(h, 3, [role |-> "admin"])
    \/ \E h \in RoleHeaders : DeleteUser(h, 4)
    \/ \E h \in RoleHeaders : AdminStats(h)
    \/ GetTask(1)

SpecFrame == InitLoggedIn /\ [][NextFrame]_vars

(* C34: a request that is answered Unauthenticated (401) or Forbidden (403)
   leaves the users, tasks and comments tables and both cache slots unchanged
   and publishes no event. *)
C34_RefusalChangesNothing ==
    [][ last'.code \in {401, 403} =>
          /\ users' = users
          /\ tasks' = tasks
          /\ comments' = comments
          /\ TASK_LIST_CACHE' = TASK_LIST_CACHE
          /\ TASK_DETAIL_CACHE' = TASK_DETAIL_CACHE
          /\ "steps" \in DOMAIN last' => last'.steps = <<>>
      ]_vars

\* the admin has just been refused the deletion of a user while the detail
\* cache holds an entry
C34_Witness ==
    /\ last.op = "delete_user"
    /\ last.code = 403
    /\ last.id \in DOMAIN users
    /\ TASK_DETAIL_CACHE # EmptyTable

(* --------- specification: administration requests that interleave ------ *)

\* admin_change_user_role up to its UPDATE: the decorator and the tests of the
\* handler, each reading the users table in a transaction of its own
ChangeRoleCheck(p, h, user_id, body) ==
    LET c == change_role_check(h, user_id, body)
    IN  /\ pc[p] = "idle"
        /\ IF c # 200
           THEN /\ last' = [op |-> "change_role", hdr |-> h, id |-> user_id,
                            body |-> body, code |-> c]
                /\ UNCHANGED procVars
           ELSE /\ pc' = [pc EXCEPT ![p] = "role_write"]
                /\ loc' = [loc EXCEPT ![p] = [hdr |-> h, user_id |-> user_id,
                                              body |-> body]]
                /\ UNCHANGED last
        /\ auth_tokens' = resolve_sweep(h)
        /\ UNCHANGED <<dbVars, nextToken, cacheVars, now, histVars>>

\* admin_change_user_role: UPDATE users SET role = ? WHERE id = ? (rowcount 0: 500)
ChangeRoleWrite(p) ==
    LET user_id == loc[p].user_id
    IN  /\ pc[p] = "role_write"
        /\ users' = IF user_id \in DOMAIN users
                    THEN [users EXCEPT ![user_id].role = loc[p].body["role"]]
                    ELSE users
        /\ last' = [op |-> "change_role", hdr |-> loc[p].hdr, id |-> user_id,
                    body |-> loc[p].body,
                    code |-> IF user_id \in DOMAIN users THEN 200 ELSE 500]
        /\ pc' = [pc EXCEPT ![p] = "idle"]
        /\ loc' = [loc EXCEPT ![p] = None]
        /\ UNCHANGED <<nextUserId, tasks, nextTaskId, comments, nextCommentId,
                       tokenVars, cacheVars, now, histVars>>

\* admin_delete_user up to the call of database.delete_user
DeleteUserCheck(p, h, user_id) ==
    LET c == delete_user_check(h, user_id)
    IN  /\ pc[p] = "idle"
        /\ IF c # 200
           THEN /\ last' = [op |-> "delete_user", hdr |-> h, id |-> user_id,
                            body |-> EmptyBody, code |-> c]
                /\ UNCHANGED procVars
           ELSE /\ pc' = [pc EXCEPT ![p] = "delete_write"]
                /\ loc' = [loc EXCEPT ![p] = [hdr |-> h, user_id |-> user_id,
                                              body |-> EmptyBody]]
                /\ UNCHANGED last
        /\ auth_tokens' = resolve_sweep(h)
        /\ UNCHANGED <<dbVars, nextToken, cacheVars, now, histVars>>

\* database.delete_user: DELETE FROM users WHERE id = ? (rowcount 0: 500)
DeleteUserWrite(p) ==
    LET user_id == loc[p].user_id
    IN  /\ pc[p] = "delete_write"
        /\ users' = Drop(users, user_id)
        /\ last' = [op |-> "delete_user", hdr |-> loc[p].hdr, id |-> user_id,
                    body |-> EmptyBody,
                    code |-> IF user_id \in DOMAIN users THEN 200 ELSE 500]
        /\ pc' = [pc EXCEPT ![p] = "idle"]
        /\ loc' = [loc EXCEPT ![p] = None]
        /\ UNCHANGED <<nextUserId, tasks, nextTaskId, comments, nextCommentId,
                       tokenVars, cacheVars, now, histVars>>

\* the super_admin and the admin (whom the super_admin may promote) change the
\* role of each other, of themselves and of the user ivan, and delete each
\* other and ivan, in requests that overlap
NextAdminRace ==
    \/ \E p \in Processes, n \in {1, 2}, u \in 1..3, r \in {"super_admin", "user"} :
          ChangeRoleCheck(p, <<"Bearer", Tok(n)>>, u, [role |-> r])
    \/ \E p \in Processes : ChangeRoleWrite(p)
    \/ \E p \in Processes, n \in {1, 2}, u \in 1..3 :
          DeleteUserCheck(p, <<"Bearer", Tok(n)>>, u)
    \/ \E p \in Processes : DeleteUserWrite(p)

SpecAdminRace == InitLoggedIn /\ [][NextAdminRace]_vars

(* C35: at least one super_admin exists in every reachable state, for every
   interleaving of role-change and user-delete requests (the seeded database
   holds one). *)
C35_SuperAdminRemains ==
    \E u \in DOMAIN users : users[u].role = "super_admin"

(* ----------------------- users that are referenced --------------------- *)

(* C36: a user who is author or executor of a task, or author of a comment,
   is never deleted: in every reachable state the author_id and executor_id
   of each task and the author_id of each comment reference an existing
   user. *)
C36_ReferencedUsersExist ==
    /\ \A t \in DOMAIN tasks :
          /\ tasks[t].author_id \in DOMAIN users
          /\ tasks[t].executor_id \in DOMAIN users
    /\ \A c \in DOMAIN comments : comments[c].author_id \in DOMAIN users

(* ------------- specification: the tokens of a deleted user ------------- *)

\* the super_admin and the user ivan log in; the holder of the first token
\* asks for the deletion of ivan; every token is then presented to /users/me
\* and to /auth/refresh while time passes
NextOrphan ==
    \/ \E e \in {"super@mail.ru", "ivan@mail.ru"} : Login(e, "123456")
    \/ DeleteUser(<<"Bearer", Tok(1)>>, 3)
    \/ \E t \in TokenStrings : GetMe(<<"Bearer", t>>)
    \/ \E t \in TokenStrings : Refresh(t)
    \/ Tick

SpecOrphan == Init /\ [][NextOrphan]_vars

(* C37: after a user is deleted, no token that was issued to that user
   resolves, and every request that presents such a token before its expiry
   time is rejected as unauthenticated (401). *)
C37_DeletedUserTokensDead ==
    [][ \A t \in DOMAIN auth_tokens :
          ( /\ auth_tokens[t].user_id \notin DOMAIN users
            /\ auth_tokens[t].expires_at > now )
          => /\ get_user_by_token(t) = None
             /\ get_user_by_access_token(t) = None
             /\ ( /\ last'.op = "get_me"
                  /\ last'.hdr = <<"Bearer", t>> ) => last'.code = 401
             /\ ( /\ last'.op = "refresh"
                  /\ last'.token = t ) => last'.code = 401
      ]_vars

(* ----------------------- the other rows of auth_tokens ----------------- *)

(* C38: login, refresh and logout affect only the token they mint or name:
   every other row of auth_tokens keeps its owner and its expiry time and
   resolves as before, and the only row that may appear is the minted one. *)
C38_OtherSessionsKept ==
    [][ last'.op \in {"login", "refresh", "logout"} =>
          LET named  == IF last'.op = "refresh" THEN {last'.token}
                        ELSE IF last'.op = "logout" /\ Len(last'.hdr) = 2
                             THEN {last'.hdr[2]}
                        ELSE {}
              issued == IF last'.op = "login" THEN {last'.token}
                        ELSE IF last'.op = "refresh" THEN {last'.new_token}
                        ELSE {}
          IN  /\ \A t \in DOMAIN auth_tokens \ named :
                    /\ t \in DOMAIN auth_tokens'
                    /\ auth_tokens'[t] = auth_tokens[t]
                    /\ get_user_by_token(t)' = get_user_by_token(t)
              /\ DOMAIN auth_tokens' \ DOMAIN auth_tokens \subseteq issued
      ]_vars

\* a refresh has just succeeded while the same user holds another session
C38_Witness ==
    /\ last.op = "refresh"
    /\ last.code = 200
    /\ \E t \in DOMAIN auth_tokens :
          /\ t # last.new_token
          /\ auth_tokens[t].user_id = auth_tokens[last.new_token].user_id

(* ------- specification: requests one after the other, publishes succeed --- *)

\* the seeded admin creates tasks, updates task 1 and deletes the first
\* created task; the details of these two tasks and the two lists are read
\* in between while time passes; no request overlaps another, no publish
\* fails
NextCoherent ==
    \/ CreateTask(AdminHeader, [title |-> "New task", author_id |-> 2], TRUE)
    \/ UpdateTask(AdminHeader, 1, [status |-> "done"], TRUE)
    \/ DeleteTask(AdminHeader, 4, TRUE)
    \/ \E id \in {1, 4} : GetTask(id)
    \/ \E q \in ListQueries : GetTasks(q)
    \/ TickUntil

SpecCoherent == InitLoggedIn /\ [][NextCoherent]_vars

(* C39: when requests do not overlap and no publish fails, after any sequence
   of task create, update, delete and read requests a hit of the list slot or
   of the detail map returns exactly what the database returns for the same
   query at that moment. *)
C39_HitEqualsRepository ==
    /\ (last.op = "get_task" /\ last.hit) => last.result = get_task_by_id(last.id)
    /\ (last.op = "get_tasks" /\ last.hit) => last.result = ListNow(last.id)
    /\ \A id \in DOMAIN TASK_DETAIL_CACHE :
          get_cached_task_detail(id) # None =>
             get_cached_task_detail(id) = get_task_by_id(id)
    /\ \A q \in ListQueries :
          LET key == make_task_list_cache_key(q, DefaultPage, DefaultLimit)
          IN  get_cached_task_list(key) # None => get_cached_task_list(key) = ListNow(q)

\* the detail of a task has just been served from the cache after the task
\* had been updated
C39_Witness ==
    /\ last.op = "get_task"
    /\ last.hit
    /\ last.result.status = "done"

====
